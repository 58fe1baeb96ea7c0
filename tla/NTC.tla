-------------------------------- MODULE NTC --------------------------------
(***************************************************************************)
(* The temperature of a thermistor from the converter's code, as in        *)
(* NV_Driver_G3/Tool/NTC.c: a binary search of the table of codes and an   *)
(* interpolation between two neighbours, in tenths of a degree.            *)
(***************************************************************************)
EXTENDS Integers

\* ADCCodebuf: the codes of -30, -29, ... 125 degrees.
Codes ==
  <<  50,  53,  57,  60,  64,  68,  72,  76,  80,  85,  90,  95, 100, 105, 111, 117, 123, 129, 136, 143,
     150, 157, 165, 172, 181, 189, 197, 206, 215, 224, 234, 243, 253, 263, 273, 284, 294, 305, 316, 327,
     338, 349, 361, 372, 384, 395, 407, 419, 430, 442, 454, 465, 477, 489, 500, 512, 523, 535, 546, 557,
     569, 580, 590, 601, 612, 622, 632, 642, 652, 662, 672, 681, 690, 700, 708, 717, 726, 734, 742, 750,
     758, 765, 773, 780, 787, 794, 801, 807, 814, 820, 826, 832, 837, 843, 848, 854, 859, 864, 868, 873,
     877, 882, 886, 890, 894, 898, 902, 905, 909, 912, 916, 919, 922, 925, 928, 931, 934, 936, 939, 941,
     944, 946, 948, 951, 953, 955, 957, 959, 961, 963, 966, 966, 968, 969, 971, 972, 974, 975, 977, 978,
     979, 980, 982, 983, 984, 985, 986, 987, 988, 989, 990, 991, 992, 993, 994, 995 >>

Last    == 155
Code(i) == Codes[i + 1]
Coldest == -30
Offset  == -33          \* DC_NTC_CoeffcientTempOffset
NoTemp  == -274         \* what a code beyond the table is converted to
MaxCode == 1023

IsMeasured(v) == Code(0) <= v /\ v <= Code(Last)

\* TempBuf is an array of char, which is unsigned on ARM: below zero it reads 226 and more.
TempBuf(i) == (Coldest + i) % 256

\* SeekMaxMinFromArray: the neighbours of a code, or its own entry twice.
Seek(v) ==
    LET from[head \in 0 .. Last + 1, tail \in 0 .. Last] ==
            LET m == (head + tail) \div 2
            IN  CASE Code(m) = v                     -> [lower |-> m, upper |-> m]
                  [] Code(m) > v /\ Code(m - 1) = v  -> [lower |-> m - 1, upper |-> m - 1]
                  [] Code(m) > v /\ Code(m - 1) < v  -> [lower |-> m - 1, upper |-> m]
                  [] Code(m) > v /\ Code(m - 1) > v  -> from[m, tail]
                  [] Code(m) < v /\ Code(m + 1) = v  -> [lower |-> m + 1, upper |-> m + 1]
                  [] Code(m) < v /\ Code(m + 1) > v  -> [lower |-> m, upper |-> m + 1]
                  [] Code(m) < v /\ Code(m + 1) < v  -> from[head, m]
    IN  from[Last + 1, 0]

\* DigitalInsertValue: both differences are negative here, since the caller has the two
\* places the other way round than SeekMaxMinFromArray has its parameters (line 119, 193).
Inserted(from, to, v) == (((from - v) * 100) \div (from - to)) \div 10

\* ConvertTempFromVoltage.
Converted(v) ==
    LET at == Seek(v)
    IN  IF ~IsMeasured(v) THEN NoTemp
        ELSE TempBuf(at.upper) * 10 + Offset
             + IF at.lower = at.upper THEN 0 ELSE Inserted(Code(at.upper), Code(at.lower), v)

-----------------------------------------------------------------------------
\* What the table means: the temperature on the line between two neighbours.
Meant(v) ==
    LET i == CHOOSE j \in 0 .. Last : Code(j) <= v /\ (j = Last \/ v < Code(j + 1))
    IN  (Coldest + i) * 10 + Offset
        + IF Code(i) = v THEN 0 ELSE ((v - Code(i)) * 10) \div (Code(i + 1) - Code(i))

IsAboveZero(v) == IsMeasured(v) /\ v > Code(-1 - Coldest)
=============================================================================
