------------------------------- MODULE Config -------------------------------
(***************************************************************************)
(* Libraries/Config: the parser of configuration files and its accessors,  *)
(* as functions.                                                           *)
(*                                                                         *)
(* A file is the sequence of pieces that fgets() returns, one for each     *)
(* line (a line of 512 characters or more is several pieces, each treated  *)
(* as a line).  A piece is a record: the kind of its first character, and  *)
(* the trimmed words before and after the first '='.  Words are sequences  *)
(* of characters because they are cut to the size of the entry; what they  *)
(* say as numbers is left to strtol() of the C library, a parameter.       *)
(***************************************************************************)
EXTENDS Integers, Sequences, FiniteSetsExt

CONSTANTS CONFIG_MAX_ENTRIES,      \* entries config_t has room for
          CONFIG_MAX_KEY_LENGTH,   \* array sizes, with the terminating 0
          CONFIG_MAX_VALUE_LENGTH,
          strtol,                  \* the C library's, as a function of words
          INT_MAX                  \* largest int; long may be wider

ASSUME ConfigAssumption ==
  /\ CONFIG_MAX_ENTRIES \in Nat
  /\ CONFIG_MAX_KEY_LENGTH \in Nat \ {0}
  /\ CONFIG_MAX_VALUE_LENGTH \in Nat \ {0}
  /\ INT_MAX \in Nat

\* strncpy() into an array of the given size, and the terminating 0.
Cut(word, size) == SubSeq(word, 1, Min({Len(word), size - 1}))

\* What fgets() and the two trims leave of a line; kind is "comment" for a
\* blank line too.
Piece == [kind : {"text", "comment"}, separator : BOOLEAN,
          key : Seq(STRING), value : Seq(STRING)]

\* The checks of one piece, in the order of the code: a blank line or a
\* comment, no separator, an empty key or value.
IsEntry(piece) ==
  /\ piece.kind = "text"
  /\ piece.separator
  /\ piece.key # <<>> /\ piece.value # <<>>

\* The entry that is made of a piece.
EntryOf(piece) == [key   |-> Cut(piece.key, CONFIG_MAX_KEY_LENGTH),
                   value |-> Cut(piece.value, CONFIG_MAX_VALUE_LENGTH)]

\* One turn of the loop of config_load; a table that is full ends it.
LoadPiece(config, piece) ==
  IF config.status # 0 \/ ~IsEntry(piece) THEN config
  ELSE IF Len(config.entries) >= CONFIG_MAX_ENTRIES
       THEN [config EXCEPT !.status = -1]
       ELSE [config EXCEPT !.entries = Append(@, EntryOf(piece))]

\* The loop: after[n] is the configuration after n pieces.
config_load(file) ==
  LET after[n \in 0 .. Len(file)] ==
        IF n = 0 THEN [status |-> 0, entries |-> <<>>]
        ELSE LoadPiece(after[n - 1], file[n])
  IN after[Len(file)]

WithKey(config, key) ==
  {i \in DOMAIN config.entries : config.entries[i].key = key}

\* Mutant: the last entry with the key is found.
FindLastEntry(config, key) ==
  IF WithKey(config, key) = {} THEN 0 ELSE Max(WithKey(config, key))

\* Index of the first entry with the key, or 0.
config_find_entry(config, key) ==
  IF WithKey(config, key) = {} THEN 0 ELSE Min(WithKey(config, key))

config_get_string(config, key, default_value) ==
  LET i == config_find_entry(config, key)
  IN IF i = 0 THEN default_value ELSE config.entries[i].value

\* What strtol() reports: the number, errno (out of the range of long), and
\* whether *endptr is a character of the word.
StrtolResult == [value : Int, errno : BOOLEAN, rest : BOOLEAN]

\* (int)value of a long: the low bits.
ToInt(value) ==
  ((value + INT_MAX + 1) % (2 * (INT_MAX + 1))) - (INT_MAX + 1)

config_get_int(config, key, default_value) ==
  LET i == config_find_entry(config, key)
      number == strtol[config.entries[i].value]
  IN IF i = 0 THEN default_value
     ELSE IF number.errno \/ number.rest THEN default_value
     ELSE ToInt(number.value)

=============================================================================
