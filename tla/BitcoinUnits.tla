---------------------------- MODULE BitcoinUnits ----------------------------
(***************************************************************************)
(* BitcoinUnits::format and BitcoinUnits::parse of                         *)
(* src/src/qt/bitcoinunits.cpp: the conversion between an amount in base   *)
(* units (qint64) and the decimal text shown in, and read from, the GUI.   *)
(*                                                                         *)
(* A QString is a sequence of one-character strings.  qint64 arithmetic   *)
(* is done at a width of Width bits (wrap-around where the code negates),  *)
(* and C++ integer division truncates toward zero.  The unit factors are  *)
(* powers of ten given by their exponents; decimals(unit) is Decimals.     *)
(*                                                                         *)
(* Callers format or parse one value at a time; the state is the last     *)
(* call and its result, so that the invariants below relate every input    *)
(* to its output.                                                          *)
(***************************************************************************)
EXTENDS Integers, Sequences, SequencesExt

CONSTANTS
    Units,      \* unit codes callers pass (valid ones and others)
    FactorExp,  \* factor(unit) == 10^FactorExp[unit]
    Decimals,   \* decimals(unit), the same for every valid unit
    Width,      \* bits of qint64
    MaxLen,     \* the "str.size() > 18" limit of parse: digits that fit in Width-1 bits
    Amounts,    \* amounts passed to format
    Texts       \* strings passed to parse

ValidUnits == DOMAIN FactorExp

ASSUME ValidUnits \subseteq Units
ASSUME 10^MaxLen - 1 < 2^(Width - 1)

VARIABLES
    fmt,    \* the last call if it was format: [unit, n, plus, out]
    prs     \* the last call if it was parse: [unit, text, ok, val]

vars == <<fmt, prs>>

-----------------------------------------------------------------------------
(* qint64 and QString primitives.                                           *)

Half == 2^(Width - 1)

\* Two's-complement wrap-around of a qint64 result.
Wrap(x) == ((x + Half) % (2 * Half)) - Half

\* C++ / and % on integers (truncation toward zero), b > 0.
CDiv(a, b) == IF a >= 0 THEN a \div b ELSE -((-a) \div b)
CMod(a, b) == a - b * CDiv(a, b)

DigitChar == <<"0", "1", "2", "3", "4", "5", "6", "7", "8", "9">>
CharValue(c) == CHOOSE d \in 0..9 : DigitChar[d + 1] = c
IsDigit(c) == \E d \in 0..9 : DigitChar[d + 1] = c

\* The decimal digits of x >= 0, without leading zeros.
RECURSIVE Digits(_)
Digits(x) == IF x < 10 THEN <<DigitChar[x + 1]>>
                       ELSE Digits(x \div 10) \o <<DigitChar[(x % 10) + 1]>>

\* QString::number(x).
NumberStr(x) == IF x < 0 THEN <<"-">> \o Digits(-x) ELSE Digits(x)

\* The English locale's thousands grouping of a digit string.
RECURSIVE Group(_)
Group(ds) ==
    IF Len(ds) <= 3 THEN ds
    ELSE Group(SubSeq(ds, 1, Len(ds) - 3)) \o <<",">>
             \o SubSeq(ds, Len(ds) - 2, Len(ds))

\* QLocale(QLocale::English).toString(x).
LocaleStr(x) == IF x < 0 THEN <<"-">> \o Group(Digits(-x)) ELSE Group(Digits(x))

\* Padding on the wrong side.
RightJustifiedWrongSide(s, w, c) ==
    IF Len(s) >= w THEN s ELSE s \o [i \in 1..(w - Len(s)) |-> c]

\* QString::rightJustified(w, c): pad on the left; never truncates.
RightJustified(s, w, c) ==
    IF Len(s) >= w THEN s ELSE [i \in 1..(w - Len(s)) |-> c] \o s

\* Padding on the wrong side.
LeftJustifiedWrongSide(s, w, c) ==
    IF Len(s) >= w THEN s ELSE [i \in 1..(w - Len(s)) |-> c] \o s

\* QString::leftJustified(w, c): pad on the right; never truncates.
LeftJustified(s, w, c) ==
    IF Len(s) >= w THEN s ELSE s \o [i \in 1..(w - Len(s)) |-> c]

\* QString::split("."): the pieces between the dots.
RECURSIVE Split(_)
Split(s) ==
    IF \A i \in 1..Len(s) : s[i] # "." THEN <<s>>
    ELSE LET d == CHOOSE i \in 1..Len(s) : s[i] = "." /\ \A j \in 1..(i - 1) : s[j] # "."
         IN  <<SubSeq(s, 1, d - 1)>> \o Split(SubSeq(s, d + 1, Len(s)))

\* Value of a string of digits.
DigitsValue(ds) == FoldLeft(LAMBDA acc, c : 10 * acc + CharValue(c), 0, ds)

\* QString::toLongLong(&ok) in base 10: an optional sign and at least one
\* digit; anything else, or a value beyond qint64, fails with 0.
ToLongLong(s) ==
    LET signed == Len(s) > 0 /\ s[1] \in {"+", "-"}
        body   == IF signed THEN Tail(s) ELSE s
        mag    == DigitsValue(body)
        v      == IF signed /\ s[1] = "-" THEN -mag ELSE mag
        ok     == Len(body) > 0 /\ (\A i \in 1..Len(body) : IsDigit(body[i]))
                    /\ -Half <= v /\ v < Half
    IN  IF ok THEN [ok |-> TRUE, val |-> v] ELSE [ok |-> FALSE, val |-> 0]

-----------------------------------------------------------------------------
(* BitcoinUnits.                                                            *)

\* BitcoinUnits::valid (lines 20-31).
Valid(u) == u \in ValidUnits

\* BitcoinUnits::factor (lines 55-64).
Factor(u) == IF Valid(u) THEN 10^FactorExp[u] ELSE 10^Decimals

\* BitcoinUnits::decimals (lines 77-86): the same for every valid unit.
NumDecimals(u) == IF Valid(u) THEN Decimals ELSE 0

\* The loop at lines 103-106: trailing '0's at indices >= 2 are chopped.
TrimZeros(s) ==
    LET keep == {k \in 2..Len(s) :
                   \A i \in (k + 1)..Len(s) : s[i] = "0"} \cup {Len(s)}
        cut  == CHOOSE k \in keep : \A j \in keep : k <= j
    IN  SubSeq(s, 1, IF Len(s) <= 2 THEN Len(s) ELSE cut)

\* BitcoinUnits::format (lines 88-115).
Format(u, n, fPlus) ==
    LET coin      == Factor(u)
        nAbs      == IF n > 0 THEN n ELSE Wrap(-n)
        quotient  == CDiv(nAbs, coin)
        remainder == CMod(nAbs, coin)
        qStr      == LocaleStr(quotient)
        rStr      == TrimZeros(RightJustified(NumberStr(remainder), NumDecimals(u), "0"))
        signed    == IF n < 0 THEN <<"-">> \o qStr
                     ELSE IF fPlus /\ n > 0 THEN <<"+">> \o qStr ELSE qStr
    IN  IF ~Valid(u) THEN <<>> ELSE signed \o <<".">> \o rStr

\* BitcoinUnits::parse (lines 122-157): the returned flag and *val_out
\* (quint64; 0 when toLongLong fails, untouched when parse returns before
\* line 151, shown as NoVal).
Parse(u, s) ==
    LET parts == Split(s)
        whole == parts[1]
        dec   == IF Len(parts) > 1 THEN parts[2] ELSE <<>>
        str   == whole \o LeftJustified(dec, NumDecimals(u), "0")
        r     == ToLongLong(str)
    IN  IF ~Valid(u) \/ s = <<>> \/ Len(parts) > 2 \/ Len(dec) > NumDecimals(u)
              \/ Len(str) > MaxLen
          THEN [ok |-> FALSE, val |-> "NoVal"]
          ELSE [ok |-> r.ok, val |-> r.val % (2 * Half)]

-----------------------------------------------------------------------------
(* Callers.                                                                 *)

NoCall == "none"

NoFormat == [unit |-> NoCall, n |-> 0, plus |-> FALSE, out |-> <<>>]
NoParse == [unit |-> NoCall, text |-> <<>>, ok |-> FALSE, val |-> "NoVal"]

Init ==
    /\ fmt = NoFormat
    /\ prs = NoParse

\* formatWithUnit / format(unit, n, fPlus) is called (lines 88-120).
CallFormat(u, n, p) ==
    /\ fmt' = [unit |-> u, n |-> n, plus |-> p, out |-> Format(u, n, p)]
    /\ prs' = NoParse

\* parse(unit, value, &val_out) is called (lines 122-157).
CallParse(u, s) ==
    /\ prs' = LET r == Parse(u, s) IN [unit |-> u, text |-> s, ok |-> r.ok, val |-> r.val]
    /\ fmt' = NoFormat

Next ==
    \/ \E u \in Units, n \in Amounts, p \in BOOLEAN : CallFormat(u, n, p)
    \/ \E u \in Units, s \in Texts : CallParse(u, s)

Spec == Init /\ [][Next]_vars

-----------------------------------------------------------------------------
(* Reference reading of an amount text.                                     *)

\* The pieces of an amount text: sign, whole digits, fraction digits.
AmountParts(s) ==
    LET body  == IF Len(s) > 0 /\ s[1] \in {"+", "-"} THEN Tail(s) ELSE s
        parts == Split(Remove(body, ","))
    IN  [neg   |-> Len(s) > 0 /\ s[1] = "-",
         n     |-> Len(parts),
         whole |-> parts[1],
         frac  |-> IF Len(parts) > 1 THEN parts[2] ELSE <<>>]

\* A text written the usual way for an amount in unit u: an optional sign,
\* digits with optional thousands separators, and an optional '.' with at
\* most FactorExp[u] fraction digits (either digit run may be empty when
\* there is a '.', as in ".5", "5." or ".", which is 0).
IsAmountText(u, s) ==
    LET a == AmountParts(s) IN
    /\ a.n <= 2
    /\ Len(a.whole) + a.n > 1
    /\ \A i \in 1..Len(a.whole) : IsDigit(a.whole[i])
    /\ \A i \in 1..Len(a.frac) : IsDigit(a.frac[i])
    /\ Len(a.frac) <= FactorExp[u]

\* The amount, in base units of unit u, such a text means.
AmountOf(u, s) ==
    LET a   == AmountParts(s)
        mag == DigitsValue(a.whole) * 10^FactorExp[u]
                 + DigitsValue(a.frac) * 10^(FactorExp[u] - Len(a.frac))
    IN  IF a.neg THEN -mag ELSE mag

-----------------------------------------------------------------------------
(* Properties.                                                              *)

\* format shows the amount it is given: read back in the same unit, its
\* text means exactly n base units (the sign, the thousands separators and
\* the trimmed fraction included).
FormatDenotes ==
    Valid(fmt.unit) =>
        IsAmountText(fmt.unit, fmt.out) /\ AmountOf(fmt.unit, fmt.out) = fmt.n

\* parse accepts only a text that means a non-negative amount in the unit,
\* and returns that amount in *val_out.
ParseDenotes ==
    prs.ok => /\ Valid(prs.unit)
              /\ IsAmountText(prs.unit, prs.text)
              /\ AmountOf(prs.unit, prs.text) >= 0
              /\ prs.val = AmountOf(prs.unit, prs.text)

=============================================================================
