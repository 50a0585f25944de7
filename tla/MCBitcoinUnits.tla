--------------------------- MODULE MCBitcoinUnits ---------------------------
(***************************************************************************)
(* The code's constants scaled by 10^-6 so that every factor fits in       *)
(* TLC's integers: decimals 8 -> 2, factors 10^8, 10^11, 10^14 -> 10^2,    *)
(* 10^5, 10^8, and qint64 -> 30 bits, whose "str.size() > 18" limit is 8   *)
(* (the most digits whose value fits in 29 bits).  The relations the code  *)
(* relies on are kept: decimals(TIPS) = log10 factor(TIPS), the other      *)
(* units are 3 and 6 decades larger, and MaxLen digits never overflow.     *)
(***************************************************************************)
EXTENDS BitcoinUnits

MCFactorTips == ("TIPS" :> 2)
MCFactorAll  == ("TIPS" :> 2) @@ ("Thousands" :> 5) @@ ("Millions" :> 8)

MinInt == -(2^29)
MaxInt == 2^29 - 1

\* Zero, one base unit, round and ragged fractions, whole coins, amounts
\* with and without thousands separators, and the extremes.
MCAmounts ==
    {0, 1, 7, 10, 50, 99, 100, 101, 120, 1234, 99999, 100000, 123456789,
     MaxInt, -1, -10, -150, -100000, MinInt + 1}

\* Texts a user may type: digits, at most one or two dots, no sign.
MCTexts == BoundedSeq({"0", "1", "5", "."}, 4)

=============================================================================
