---------------------------- MODULE CsvTokenizer ----------------------------
(***************************************************************************)
(* The CSV tokenizer, ufovectors/src/csv/tokenizer.c: a state machine fed   *)
(* one character at a time. A character is a symbol: the ones the machine   *)
(* tells apart have names, any other symbol stands for text (a word, a      *)
(* number) that is never split. A tokenizer is a record, so that one pass   *)
(* over a file is a fold of Feed over its characters and EndOfFile.         *)
(***************************************************************************)
EXTENDS Integers, SequencesExt

CONSTANTS
    InitialBuffer,  \* initial_buffer_size: characters a token buffer starts with
    SlotBytes       \* bytes realloc takes for each character of the buffer

ASSUME BufferAssumption ==
    /\ InitialBuffer \in Nat /\ InitialBuffer >= 2
    /\ SlotBytes \in Nat \ {0}

Comma == ","
NewLine == "nl"
Quote == "quote"
Escape == "escape"
Blank == " "            \* a space or a tab
Return == "cr"          \* white space to isspace, not to is_whitespace
HighByte == "ff"        \* the byte 0xFF, which is EOF once it is a char
EndOfFile == "eof"

IsEof(c) == c \in {EndOfFile, HighByte}

(* A token that was skipped is NULL; any other has a text and the offsets    *)
(* between which it was found.                                               *)
NoToken == [text |-> <<>>, start |-> -1, end |-> -1]

(* tokenizer_state_init and tokenizer_start. end_of_last_token starts at 0   *)
(* wherever the file is entered.                                             *)
Start(offset) ==
    [state |-> "field", offset |-> offset, last |-> 0,
     buf |-> <<>>, max |-> InitialBuffer, bytes |-> InitialBuffer, over |-> FALSE,
     result |-> "MORE", token |-> NoToken]

(* isspace at the end of a token. A token of white space only, which starts  *)
(* with a carriage return, makes the code look at the byte before the        *)
(* buffer: the zero byte of malloc's size field, where the loop ends.        *)
IsSpace(c) == c \in {Blank, Return}

TrimEnd(s) == SubSeq(s, 1, SelectLastInSeq(s, LAMBDA c : ~IsSpace(c)))

-----------------------------------------------------------------------------
(* What a character does in a state: append emit and go to next, or pop a    *)
(* token and return result.                                                  *)
Go(next) == [next |-> next, emit |-> <<>>, result |-> "MORE", pop |-> FALSE, trim |-> FALSE]
Keep(next, s) == [Go(next) EXCEPT !.emit = s]
Pop(next, result) == [Go(next) EXCEPT !.result = result, !.pop = TRUE]
PopTrimmed(next, result) == [Pop(next, result) EXCEPT !.trim = TRUE]

InField(c) ==
    CASE IsEof(c)     -> Pop("final", "END_OF_FILE")
      [] c = Comma    -> Pop("field", "OK")
      [] c = NewLine  -> Pop("field", "END_OF_ROW")
      [] c = Blank    -> Go("field")
      [] c = Quote    -> Go("quoted")
      [] OTHER        -> Keep("unquoted", <<c>>)

InUnquoted(c) ==
    CASE IsEof(c)     -> PopTrimmed("final", "END_OF_FILE")
      [] c = Comma    -> PopTrimmed("field", "OK")
      [] c = NewLine  -> PopTrimmed("field", "END_OF_ROW")
      [] OTHER        -> Keep("unquoted", <<c>>)

InQuoted(c) ==
    CASE c = Quote    -> Go("quote")
      [] c = Escape   -> Go("escape")
      [] IsEof(c)     -> Pop("crashed", "PARSE_ERROR")
      [] OTHER        -> Keep("quoted", <<c>>)

InQuote(c) ==
    CASE c = Quote    -> Keep("quoted", <<c>>)
      [] IsEof(c)     -> Pop("crashed", "PARSE_ERROR")
      [] c = Blank    -> Go("trailing")
      [] c = Comma    -> Pop("field", "OK")
      [] c = NewLine  -> Pop("field", "END_OF_ROW")
      [] OTHER        -> [Go("crashed") EXCEPT !.result = "PARSE_ERROR"]

InTrailing(c) ==
    CASE c = Blank    -> Go("trailing")
      [] c = Comma    -> Pop("field", "OK")
      [] c = NewLine  -> Pop("field", "END_OF_ROW")
      [] IsEof(c)     -> Pop("final", "END_OF_FILE")
      [] OTHER        -> Pop("crashed", "PARSE_ERROR")

InEscape(c) ==
    CASE c = Escape   -> Keep("quoted", <<c>>)
      [] IsEof(c)     -> Pop("crashed", "PARSE_ERROR")
      [] OTHER        -> Keep("quoted", <<Escape, c>>)

Delta(state, c) ==
    CASE state = "field"    -> InField(c)
      [] state = "unquoted" -> InUnquoted(c)
      [] state = "quoted"   -> InQuoted(c)
      [] state = "quote"    -> InQuote(c)
      [] state = "trailing" -> InTrailing(c)
      [] state = "escape"   -> InEscape(c)
      [] OTHER              -> [Go(state) EXCEPT !.result = "ERROR"]

(* tokenizer_token_buffer_append: a full buffer grows by half.               *)
HalvedGrowth(max) == max \div 2

Grown(max) == max + max \div 2

AppendChar(t, c) ==
    LET full == Len(t.buf) = t.max
        max == IF full THEN Grown(t.max) ELSE t.max
        bytes == IF full THEN SlotBytes * max ELSE t.bytes
    IN [t EXCEPT !.buf = Append(@, c), !.max = max, !.bytes = bytes,
                 !.over = @ \/ Len(t.buf) + 1 > bytes]

(* Every transition counts one character, and appending is a transition: an  *)
(* escape that is kept with the character after it counts three for two.     *)
Moves(d) == IF Len(d.emit) = 2 THEN 2 ELSE 1

PopTokenKeepingEnd(t, trim, skip) ==
    [t EXCEPT
        !.token = IF skip THEN NoToken
                  ELSE [text |-> IF trim THEN TrimEnd(t.buf) ELSE t.buf,
                        start |-> t.last, end |-> t.offset],
        !.buf = <<>>]

(* pop_token. A skipped token leaves end_of_last_token where it was.         *)
PopToken(t, trim, skip) ==
    IF skip THEN [t EXCEPT !.token = NoToken, !.buf = <<>>]
    ELSE [t EXCEPT
            !.token = [text |-> IF trim THEN TrimEnd(t.buf) ELSE t.buf,
                       start |-> t.last, end |-> t.offset],
            !.last = t.offset,
            !.buf = <<>>]

(* One turn of the loop of tokenizer_next. The result is MORE while the      *)
(* token goes on.                                                            *)
Feed(t, c, skip) ==
    LET d == Delta(t.state, c)
        moved == [FoldLeft(AppendChar, t, d.emit) EXCEPT !.state = d.next, !.result = d.result,
                     !.offset = @ + IF d.result = "ERROR" THEN 0 ELSE Moves(d)]
    IN IF d.pop THEN PopToken(moved, d.trim, skip) ELSE [moved EXCEPT !.token = NoToken]
=============================================================================
