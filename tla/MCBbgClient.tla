----------------------------- MODULE MCBbgClient -----------------------------
(* Instances of BbgClient for TLC.                                         *)
EXTENDS BbgClient

Text(k, v) == [kind |-> "text", separator |-> TRUE, key |-> k, value |-> v]

Port(value) == Text(ServerPort, value)

\* Lines of a configuration file: skipped ones, broken ones, and other keys; the
\* port as a number, with signs, too large for 16 bits, for int and for long,
\* too long for the array, and as garbage.
Lines ==
  { [Port(<<"8", "0">>) EXCEPT !.kind = "comment"],
    [Port(<<"8", "0">>) EXCEPT !.separator = FALSE],
    Port(<<>>), Text(<<>>, <<"8", "0">>),
    Text(Append(ServerPort, "x"), <<"8", "0">>), Text(<<"k">>, <<"8", "0">>),
    Port(<<"8", "0">>), Port(<<"+", "8", "1">>), Port(<<"-", "1">>),
    Port(<<"6", "5", "6", "1", "8">>), Port(<<"2", "6", "2", "2", "2", "7">>),
    Port(<<"4", "1", "9", "4", "3", "0", "4">>),
    Port(<<"-", "9", "9", "9", "9", "9", "9">>),
    Port(<<"0", "0", "0", "0", "0", "8", "4", "9">>),
    Port(<<"8", "x">>), Port(<<"-">>) }

Files == UNION {[1 .. n -> Lines] : n \in 0 .. 3}

Good == << Text(<<"k">>, <<"0">>), Text(ServerPort, <<"8", "0">>) >>

\* A file that is read, and one with too many entries.
TwoFiles == {Good, Append(Good, Text(<<"l">>, <<"0">>))}

Digits == <<"0", "1", "2", "3", "4", "5", "6", "7", "8", "9">>

DigitValue == [d \in {Digits[n + 1] : n \in 0 .. 9} |->
                 CHOOSE n \in 0 .. 9 : Digits[n + 1] = d]

\* A long of 23 bits and an int of 18 (in the cfg): TLC's own integers have 32.
LONG_MAX == 4194303

\* strtol() of a word: a sign, then digits as far as they go; when there is no
\* digit nothing is converted and endptr is the beginning.
Number(word) ==
  LET sign == IF word # <<>> /\ word[1] \in {"+", "-"} THEN 1 ELSE 0
      end == Max({n \in sign .. Len(word) :
                    \A i \in sign + 1 .. n : word[i] \in DOMAIN DigitValue})
      value[n \in sign .. end] ==
        IF n = sign THEN 0 ELSE 10 * value[n - 1] + DigitValue[word[n]]
      number == IF sign = 1 /\ word[1] = "-" THEN -value[end] ELSE value[end]
  IN [value |-> Min({LONG_MAX, Max({number, -LONG_MAX - 1})}),
      errno |-> number \notin -LONG_MAX - 1 .. LONG_MAX,
      rest  |-> end < Len(word) \/ (end = sign /\ word # <<>>)]

\* For the words that the arrays can hold of these files.
Strtol == [text \in {<<"0">>} \cup {EntryOf(line).value : line \in Lines} |->
             Number(text)]
=============================================================================
