------------------------------- MODULE Output -------------------------------
(***************************************************************************)
(* printf of src/src/io/output.c, as the text that it passes to putchar.   *)
(* A character, or a run of characters that printf only copies, is a       *)
(* string; a format is a sequence of these, and its arguments a sequence   *)
(* of numbers and texts.                                                   *)
(***************************************************************************)
EXTENDS Integers, Sequences

CONSTANTS
    U64_MAX_LENGTH_DEC,     \* powers of 10 in POWERS_10 (20)
    U32_MAX_LENGTH_HEX      \* powers of 16 in POWERS_16 (16)

(* The character of a digit.                                               *)
DIGITS == <<"0", "1", "2", "3", "4", "5", "6", "7", "8", "9", "A", "B", "C", "D", "E", "F">>

(* Faulty variant: a zero behind the first digit is left out.              *)
Digits_no_zero(num, base, length) ==
    LET loop[i \in 0..length] ==
          IF i = length THEN [num |-> num, out |-> <<>>]
          ELSE LET s == loop[i + 1]
                   divide == s.num \div base^i
               IN  IF divide = 0 THEN s
                   ELSE [num |-> s.num % base^i, out |-> Append(s.out, DIGITS[divide + 1])]
    IN  IF num = 0 THEN <<"0">> ELSE loop[0].out

(* %u and %x: one digit for each power, from the highest on, but none for  *)
(* the zeros in front of the number.                                       *)
Digits(num, base, length) ==
    LET loop[i \in 0..length] ==
          IF i = length THEN [num |-> num, out |-> <<>>]
          ELSE LET s == loop[i + 1]
                   divide == s.num \div base^i
               IN  IF divide = 0
                   THEN IF s.out = <<>> THEN s ELSE [s EXCEPT !.out = Append(@, "0")]
                   ELSE [num |-> s.num % base^i, out |-> Append(s.out, DIGITS[divide + 1])]
    IN  IF num = 0 THEN <<"0">> ELSE loop[0].out

(* The characters for the conversion c of argument a.                      *)
Converted(c, a) ==
    CASE c = "u" -> Digits(a, 10, U64_MAX_LENGTH_DEC)
      [] c = "x" -> Digits(a, 16, U32_MAX_LENGTH_HEX)
      [] c = "c" -> <<a>>
      [] c = "s" -> a

(* From position k of the format and argument a on; a conversion that is   *)
(* not known prints nothing and takes no argument.                         *)
printf(format, args) ==
    LET from[k \in 1..(Len(format) + 2), a \in 1..(Len(args) + 1)] ==
          IF k > Len(format) THEN <<>>
          ELSE IF format[k] # "%" THEN <<format[k]>> \o from[k + 1, a]
          ELSE IF format[k + 1] \in {"u", "x", "c", "s"}
               THEN Converted(format[k + 1], args[a]) \o from[k + 2, a + 1]
          ELSE (IF format[k + 1] = "%" THEN <<"%">> ELSE <<>>) \o from[k + 2, a]
    IN  from[1, 1]

-----------------------------------------------------------------------------

(* How a number is written: no zero in front, and the digits add up to it. *)
Denotes(text, num, base) ==
    LET digit(k) == CHOOSE d \in 0..15 : DIGITS[d + 1] = text[k]
        value[k \in 0..Len(text)] == IF k = 0 THEN 0 ELSE base * value[k - 1] + digit(k)
    IN  /\ text # <<>>
        /\ \A k \in DOMAIN text : \E d \in 0..(base - 1) : DIGITS[d + 1] = text[k]
        /\ value[Len(text)] = num
        /\ text[1] = "0" => Len(text) = 1
=============================================================================
