------------------------------- MODULE Stdlib -------------------------------
(***************************************************************************)
(* The kernel's string and conversion functions (kernel/kstdlib/string.c,  *)
(* stdlib.c) as operators, and a process that calls them.  A string is a   *)
(* sequence of characters without its terminating NUL; the digits are the  *)
(* numbers 0 to 35, the other characters numbers above.                    *)
(***************************************************************************)
EXTENDS Integers, Sequences, SequencesExt

CONSTANTS
    ULong,      \* 2^32, the range of unsigned long
    Strings,    \* the strings the functions are called with
    Bases       \* the bases numbers are written in

\* A part of a string is a string.
ASSUME StdlibAssumption ==
    /\ ULong \in Nat \ {0} /\ ULong % 2 = 0
    /\ Bases \subseteq 2 .. 32
    /\ \A s \in Strings :
        /\ s \in Seq(Nat)
        /\ \A i \in 1 .. Len(s), j \in 1 .. Len(s) : SubSeq(s, i, j) \in Strings \cup {<<>>}

Minus == 36
Space == 37
Nul   == -1

\* A number as the C types hold it.
Unsigned(n) == n % ULong
Signed(n) == LET u == Unsigned(n) IN IF u >= ULong \div 2 THEN u - ULong ELSE u

Smaller(x, y) == IF x > y THEN y ELSE x

\* memcmp of the first n bytes: the difference of the first two that differ.
Memcmp(a, b, n) ==
    LET D == {i \in 1 .. n : a[i] # b[i]}
    IN  IF D = {} THEN 0 ELSE a[Min(D)] - b[Min(D)]

\* strcmp: the longer string is the greater one.
Strcmp(a, b) ==
    IF Len(a) > Len(b) THEN 1
    ELSE IF Len(a) < Len(b) THEN -1
    ELSE Memcmp(a, b, Len(a))

\* strncat appends at most n characters; strcat all of them.
Strncat(dest, src, n) == dest \o SubSeq(src, 1, Smaller(n, Len(src)))
Strcat(dest, src) == Strncat(dest, src, Len(src))

\* strncpy, the n bytes it writes.
Strncpy(src, n) == [i \in 1 .. n |-> IF i <= Len(src) THEN src[i] ELSE Nul]

\* strnlen.
Strnlen(s, n) == Smaller(Len(s), n)

\* strchr, strrchr and strstr: a place in the string, 0 for NULL.  strrchr
\* begins at the terminator.
Strchr(s, c) == SelectInSeq(s, LAMBDA x : x = c)
Strrchr(s, c) ==
    IF c = Nul THEN Len(s) + 1 ELSE SelectLastInSeq(s, LAMBDA x : x = c)
Strstr(hay, needle) ==
    LET At == {i \in 1 .. Len(hay) - Len(needle) + 1 :
                Memcmp(SubSeq(hay, i, Len(hay)), needle, Len(needle)) = 0}
    IN  IF At = {} THEN 0 ELSE Min(At)

\* The digits of n, least significant first as the loops of lltoa and ulltoa
\* find them, and turned round.
Digits(n, base) ==
    LET found[k \in 0 .. n] == IF k = 0 THEN <<>> ELSE <<k % base>> \o found[k \div base]
    IN  Reverse(found[n])

\* The loops' buffer has room for the digits: the kernel writes numbers in
\* base 10 and 16.
ASSUME DigitsAssumption ==
    \A base \in Bases, n \in 0 .. ULong - 1 : Len(Digits(n, base)) <= 21

\* ulltoa, which ultoa and utoa call; lltoa, which ltoa and itoa call.  The
\* most negative number has no absolute value and is left out.
Ultoa(n, base) == IF n = 0 THEN <<0>> ELSE Digits(n, base)
Ltoa(n, base) ==
    IF n = 0 THEN <<0>>
    ELSE IF n < 0 THEN <<Minus>> \o Digits(-n, base) ELSE Digits(n, base)

\* isbasedigit.
IsBaseDigit(c, base) == c \in 0 .. base - 1

\* How much of s strtol and strtoul skip: spaces and a sign.
SkipSpace(s) ==
    LET N == {i \in 1 .. Len(s) : s[i] # Space} IN IF N = {} THEN <<>> ELSE SubSeq(s, Min(N), Len(s))
IsNegative(s) == SkipSpace(s) # <<>> /\ Head(SkipSpace(s)) = Minus
AfterSign(s) == IF IsNegative(s) THEN Tail(SkipSpace(s)) ELSE SkipSpace(s)

\* The digits in front of s.
DigitPrefix(s, base) ==
    LET N == {i \in 1 .. Len(s) : ~IsBaseDigit(s[i], base)}
    IN  IF N = {} THEN s ELSE SubSeq(s, 1, Min(N) - 1)

\* The loop over the digits.  It stops with -ERANGE when a step makes the
\* number smaller, which not every overflow does.
Accumulate(acc, d, base) ==
    LET tmp == Unsigned(acc.out * base + d)
    IN  IF acc.error = "none" /\ tmp < acc.out
        THEN [out |-> ULong - 1, error |-> "ERANGE"]
        ELSE IF acc.error # "none" THEN acc ELSE [out |-> tmp, error |-> "none"]

Converted(d, base) ==
    LET acc[i \in 0 .. Len(d)] ==
            IF i = 0 THEN [out |-> 0, error |-> "none"] ELSE Accumulate(acc[i - 1], d[i], base)
    IN  acc[Len(d)]

\* Wrong variant: the digits are taken from the last to the first.
Strtoul_Backwards(s, base) ==
    LET d == DigitPrefix(AfterSign(s), base)
        r == Converted(Reverse(d), base)
    IN  IF d = <<>> THEN [out |-> 0, error |-> "EINVAL", rest |-> Len(s)]
        ELSE [out |-> r.out, error |-> r.error, rest |-> Len(AfterSign(s)) - Len(d)]

\* strtoul: the number, the error and how much of the string is left.
Strtoul(s, base) ==
    LET d == DigitPrefix(AfterSign(s), base)
        r == Converted(d, base)
    IN  IF d = <<>> THEN [out |-> 0, error |-> "EINVAL", rest |-> Len(s)]
        ELSE IF r.error # "none" THEN [out |-> r.out, error |-> r.error, rest |-> Len(s)]
        ELSE [out |-> IF IsNegative(s) THEN Unsigned(-r.out) ELSE r.out,
              error |-> "none", rest |-> Len(AfterSign(s)) - Len(d)]

\* strtol: its sums stay in range where it is called here; overflow of a long
\* is undefined.
Strtol(s, base) ==
    LET r == Strtoul(s, base) IN [r EXCEPT !.out = Signed(r.out)]

-----------------------------------------------------------------------------
VARIABLE call   \* the last call: its function, its arguments and its result

NoCall == [fn |-> "none"]
StdlibInit == call = NoCall

CallString ==
    \E a, b \in Strings :
        call' = [fn |-> "string", a |-> a, b |-> b, cmp |-> Strcmp(a, b),
                 rev |-> Strcmp(b, a), cat |-> Strcat(a, b), at |-> Strstr(a, b)]

CallSearch ==
    \E s \in Strings, c \in {0, 1, Minus, Nul}, n \in 0 .. 3 :
        call' = [fn |-> "search", s |-> s, c |-> c, n |-> n,
                 first |-> Strchr(s, c), last |-> Strrchr(s, c),
                 copy |-> Strncpy(s, n), len |-> Strnlen(s, n)]

CallUnsigned ==
    \E n \in 0 .. ULong - 1, base \in Bases, s \in Strings :
        call' = [fn |-> "unsigned", n |-> n, tail |-> s, base |-> base,
                 text |-> Ultoa(n, base),
                 back |-> Strtoul(<<Space>> \o Ultoa(n, base) \o s, base)]

CallSigned ==
    \E n \in 1 - ULong \div 2 .. ULong \div 2 - 1, base \in Bases :
        call' = [fn |-> "signed", n |-> n, base |-> base,
                 text |-> Ltoa(n, base), back |-> Strtol(Ltoa(n, base), base)]

\* strtoul of any string, numbers out of range among them.
CallNumber ==
    \E s \in Strings, base \in Bases :
        call' = [fn |-> "number", s |-> s, base |-> base, back |-> Strtoul(s, base)]

StdlibNext ==
    \/ /\ call = NoCall
       /\ CallString \/ CallSearch \/ CallUnsigned \/ CallSigned \/ CallNumber
    \/ call # NoCall /\ call' = NoCall

StdlibSpec == StdlibInit /\ [][StdlibNext]_call

-----------------------------------------------------------------------------
\* The sum a reader of the digits makes of them.
NumberOf(digits, base) ==
    LET sum[i \in 0 .. Len(digits)] == IF i = 0 THEN 0 ELSE sum[i - 1] * base + digits[i]
    IN  sum[Len(digits)]

\* What the digits at the beginning of a string, after spaces and a sign, amount to.
Amount(s, base) == NumberOf(DigitPrefix(AfterSign(s), base), base)

\* What ltoa and ultoa write is the number in that base and is read back by
\* strtol and strtoul as that number, spaces before it skipped and what
\* follows it left.
NumbersExact ==
    /\ call.fn = "unsigned" =>
        /\ NumberOf(call.text, call.base) = call.n
        /\ DigitPrefix(call.tail, call.base) = <<>> =>
            call.back = [out |-> call.n, error |-> "none", rest |-> Len(call.tail)]
    /\ call.fn = "signed" => call.back = [out |-> call.n, error |-> "none", rest |-> 0]

\* strtoul of any string: -EINVAL if and only if there is no digit; -ERANGE,
\* with ULONG_MAX, only for a number that does not fit; otherwise the number
\* modulo the range, turned round by a sign, and the end of its digits.
OverflowExact ==
    call.fn = "number" =>
        LET m == Amount(call.s, call.base)
            d == DigitPrefix(AfterSign(call.s), call.base)
        IN  /\ call.back.error = "EINVAL" <=> d = <<>>
            /\ call.back.error = "ERANGE" => m >= ULong /\ call.back.out = ULong - 1
            /\ call.back.error = "none" =>
                /\ call.back.out = Unsigned(IF IsNegative(call.s) THEN -m ELSE m)
                /\ call.back.rest = Len(AfterSign(call.s)) - Len(d)

\* strcmp is a total order of the strings, although not the one of the
\* alphabet, strstr finds the first occurrence there is, strcat appends.
ComparisonExact ==
    call.fn = "string" =>
        /\ call.cmp = 0 <=> call.a = call.b
        /\ call.cmp > 0 <=> call.rev < 0
        /\ \A c \in Strings : call.cmp > 0 /\ Strcmp(call.b, c) > 0 => Strcmp(call.a, c) > 0
        /\ call.at # 0 <=> \E p, q \in Strings \cup {<<>>} :
                            call.a = p \o call.b \o q /\ call.at = Len(p) + 1
        /\ \A p, q \in Strings \cup {<<>>} :
            call.a = p \o call.b \o q => call.at \in 1 .. Len(p) + 1
        /\ IsPrefix(call.a, call.cat) /\ Len(call.cat) = Len(call.a) + Len(call.b)

\* strchr finds the first and strrchr the last place of a character, the
\* terminator among them; strncpy copies what strnlen counts.
SearchesExact ==
    call.fn = "search" =>
        /\ call.first # 0 => call.s[call.first] = call.c /\ call.first <= call.last
        /\ call.c # Nul => /\ call.first = 0 <=> call.last = 0
                           /\ call.last # 0 => call.s[call.last] = call.c
        /\ call.c = Nul => call.first = 0 /\ call.last = Len(call.s) + 1
        /\ \A i \in 1 .. Len(call.s) : call.s[i] = call.c => i \in call.first .. call.last
        /\ call.len = Cardinality({i \in 1 .. call.n : call.copy[i] # Nul})

\* The strings and conversions do what the four parts say.
StringsExact == NumbersExact /\ OverflowExact /\ ComparisonExact /\ SearchesExact

\* The comment of stdlib.c at 128 says "overflow": a number that does not fit
\* is refused.  The code does not keep this: a sum that wraps round to one
\* that is not smaller passes.
OverflowNoticed ==
    call.fn = "number" /\ Amount(call.s, call.base) >= ULong => call.back.error = "ERANGE"
=============================================================================
