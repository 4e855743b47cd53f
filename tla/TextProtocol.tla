---------------------------- MODULE TextProtocol ----------------------------
(***************************************************************************)
(* The lines of the text protocol: parse_request and serialize_response.   *)
(*                                                                         *)
(* A text is a sequence of tokens: command words, pieces of keys and       *)
(* values, and the characters that count as whitespace, one by one.  Only  *)
(* " " separates arguments; all of them are trimmed at the ends.           *)
(***************************************************************************)
EXTENDS Integers, SequencesExt

CONSTANTS Blanks,     \* the characters of isspace, " " among them
          Lower(_)    \* tolower, token by token

Space    == " "
LineFeed == "\n"

ASSUME ProtocolAssumption ==
  /\ Space \in Blanks /\ {"GET", "DEL", "SET", "QUIT"} \cap Blanks = {}
  /\ Lower("GET") = "get" /\ Lower("DEL") = "del"
  /\ Lower("SET") = "set" /\ Lower("QUIT") = "quit"

-----------------------------------------------------------------------------
(* Helpers of the parser.                                                  *)

NonBlank(c) == c \notin Blanks

TrimLeft(text) ==
  IF \E i \in DOMAIN text : NonBlank(text[i])
  THEN SubSeq(text, SelectInSeq(text, NonBlank), Len(text)) ELSE <<>>

TrimRight(text) == SubSeq(text, 1, SelectLastInSeq(text, NonBlank))

Trim(text) == TrimRight(TrimLeft(text))

\* text.find(' '), 0 for npos; the text before it; and after it.
FirstSpace(text) == SelectInSeq(text, LAMBDA c : c = Space)
Before(text) == IF FirstSpace(text) = 0 THEN text ELSE SubSeq(text, 1, FirstSpace(text) - 1)
After(text)  == IF FirstSpace(text) = 0 THEN <<>> ELSE SubSeq(text, FirstSpace(text) + 1, Len(text))

LowerCopy(text) == [i \in DOMAIN text |-> Lower(text[i])]

-----------------------------------------------------------------------------
(* Requests.                                                               *)

Invalid(error) == [type |-> "invalid", error |-> error]
Quit           == [type |-> "quit"]

\* GET and DEL.
ParsedWithKey(type, key) ==
  CASE key = <<>>           -> Invalid(<<"key_missing">>)
    [] FirstSpace(key) # 0  -> Invalid(<<"one_key_only">>)
    [] OTHER                -> [type |-> type, key |-> key]

\* Fault: the key ends at the last space.
ParsedSetAtLastSpace(arguments) ==
  LET last  == SelectLastInSeq(arguments, LAMBDA c : c = Space)
      key   == SubSeq(arguments, 1, last - 1)
      value == SubSeq(arguments, last + 1, Len(arguments))
  IN CASE last = 0     -> Invalid(<<"value_missing">>)
       [] key = <<>>   -> Invalid(<<"key_empty">>)
       [] value = <<>> -> Invalid(<<"value_empty">>)
       [] OTHER        -> [type |-> "set", key |-> key, value |-> value]

ParsedSet(arguments) ==
  LET key    == Before(arguments)
      value  == TrimLeft(After(arguments))
      spaced == FirstSpace(arguments) # 0
  IN CASE ~spaced                                -> Invalid(<<"value_missing">>)
       [] spaced /\ key = <<>>                   -> Invalid(<<"key_empty">>)
       [] spaced /\ key # <<>> /\ value = <<>>   -> Invalid(<<"value_empty">>)
       [] spaced /\ key # <<>> /\ value # <<>>   -> [type |-> "set", key |-> key, value |-> value]

Parsed(line) ==
  LET cleaned   == Trim(line)
      command   == LowerCopy(Before(cleaned))
      remainder == TrimLeft(After(cleaned))
  IN CASE cleaned = <<>>                             -> Invalid(<<"empty_request">>)
       [] command = <<"get">>                        -> ParsedWithKey("get", remainder)
       [] command \in {<<"del">>, <<"delete">>}      -> ParsedWithKey("del", remainder)
       [] command = <<"set">>                        -> ParsedSet(remainder)
       [] command \in {<<"quit">>, <<"exit">>}       -> Quit
       [] OTHER                                      -> Invalid(<<"unknown_command">> \o command)

\* The documented form of a valid request, as the clients write it.
Written(q) ==
  CASE q.type = "get"  -> <<"GET", Space>> \o q.key
    [] q.type = "del"  -> <<"DEL", Space>> \o q.key
    [] q.type = "set"  -> <<"SET", Space>> \o q.key \o <<Space>> \o q.value
    [] q.type = "quit" -> <<"QUIT">>

-----------------------------------------------------------------------------
(* Responses: a word, and a payload for VALUE and ERROR.                   *)

Serialized(response) ==
  (IF response[1] \in {"VALUE", "ERROR"} THEN <<response[1], Space>> \o response[2]
                                        ELSE <<response[1]>>) \o <<LineFeed>>
=============================================================================
