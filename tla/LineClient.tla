----------------------------- MODULE LineClient -----------------------------
(***************************************************************************)
(* The interactive TCP client: a prompt, one request line at a time, and   *)
(* the line that comes back, read character by character.                  *)
(*                                                                         *)
(* The server is what TcpServer does to one session, in one step: it       *)
(* parses the line and answers it, with whatever its store holds, or is    *)
(* killed.  The client has no descriptor to wait on and no time limit.     *)
(***************************************************************************)
EXTENDS TextProtocol

CONSTANTS Lines,      \* what the user may type, a line each
          Values,     \* what the server may have stored under a key
          NoLine

\* Lines are cut at "\n", on either side, and values come in lines.
ASSUME LinesAssumption ==
  /\ NoLine \notin Lines
  /\ \A text \in Lines \cup Values :
       text \in Seq(STRING) /\ \A i \in DOMAIN text : text[i] # LineFeed
  /\ \A text \in Lines : \A i \in DOMAIN text : Lower(text[i]) \in STRING \ {LineFeed}

VARIABLES client,     \* "prompt", "reading", "shown", or how it ended
          line,       \* the last line typed
          meant,      \* what parse_request makes of it, on either side
          request,    \* what the server has not received
          response,   \* what the client has not received
          read,       \* what read_line has put together
          session,    \* the server's side: "open", "ended" by QUIT, "closed", or "reset"
          answer      \* the server's last answer, as a history

vars == <<client, line, meant, request, response, read, session, answer>>

CarriageReturn == "\r"

NoMeaning == Invalid(<<>>)
NoAnswer  == <<"none", <<>>>>

Init ==
  /\ client = "prompt" /\ line = NoLine /\ meant = NoMeaning /\ request = NoLine
  /\ response = <<>> /\ read = <<>>
  /\ session = "open" /\ answer = NoAnswer

-----------------------------------------------------------------------------
(* The client.                                                             *)

\* It asks for a line again when nothing was typed.  write_all gives the line
\* to the system at once; it is lost when the server has gone.
Types ==
  /\ client = "prompt"
  /\ \E typed \in Lines \ {<<>>} :
       /\ line' = typed
       /\ meant' = Parsed(typed)
       /\ request' = IF session = "open" THEN typed ELSE NoLine
  /\ client' = "reading"
  /\ UNCHANGED <<response, read, session, answer>>

\* End of input at the prompt.
Leaves ==
  /\ client = "prompt"
  /\ client' = "left"
  /\ UNCHANGED <<line, meant, request, response, read, session, answer>>

\* read_line drops carriage returns.
ReadsOne ==
  /\ client = "reading" /\ response # <<>> /\ Head(response) # LineFeed
  /\ response' = Tail(response)
  /\ read' = IF Head(response) = CarriageReturn THEN read ELSE Append(read, Head(response))
  /\ UNCHANGED <<client, line, meant, request, session, answer>>

\* Fault: a carriage return ends the line as well.
ReadsLineAtReturn ==
  /\ client = "reading" /\ response # <<>> /\ Head(response) \in {CarriageReturn, LineFeed}
  /\ response' = Tail(response)
  /\ client' = "shown"
  /\ UNCHANGED <<line, meant, request, read, session, answer>>

ReadsLine ==
  /\ client = "reading" /\ response # <<>> /\ Head(response) = LineFeed
  /\ response' = Tail(response)
  /\ client' = "shown"
  /\ UNCHANGED <<line, meant, request, read, session, answer>>

\* recv returns 0: what was read is a response if it is not empty.
ReadsEnd ==
  /\ client = "reading" /\ response = <<>> /\ session \in {"ended", "closed"}
  /\ client' = IF read # <<>> THEN "shown" ELSE "failed"
  /\ UNCHANGED <<line, meant, request, response, read, session, answer>>

\* recv or send returns an error.
ReadFails ==
  /\ client = "reading" /\ session = "reset"
  /\ client' = "failed"
  /\ response' = <<>>
  /\ UNCHANGED <<line, meant, request, read, session, answer>>

\* Fault: it compares the line with the documented word.
StopsByWord == line = <<"QUIT">>

\* The response is shown.  The client parses what it had sent, to stop at QUIT.
Stops == meant = Quit

GoesOn ==
  /\ client = "shown"
  /\ IF Stops
     THEN client' = "quit" /\ UNCHANGED <<line, meant, read, answer>>
     ELSE /\ client' = "prompt" /\ read' = <<>> /\ answer' = NoAnswer
          /\ line' = NoLine /\ meant' = NoMeaning
  /\ UNCHANGED <<request, response, session>>

-----------------------------------------------------------------------------
(* The server's side of the session.                                       *)

Answers(q) ==
  CASE q.type = "get"     -> {<<"VALUE", v>> : v \in Values} \cup {<<"NOT_FOUND", <<>>>>}
    [] q.type = "set"     -> {<<"OK", <<>>>>}
    [] q.type = "del"     -> {<<"OK", <<>>>>, <<"NOT_FOUND", <<>>>>}
    [] q.type = "quit"    -> {<<"BYE", <<>>>>}
    [] q.type = "invalid" -> {<<"ERROR", q.error>>}

\* Fault: a blank line is skipped, as the client skips an empty one.
ServesNonBlank ==
  /\ session = "open" /\ request # NoLine
  /\ IF Trim(request) = <<>>
     THEN UNCHANGED <<answer, response>>
     ELSE /\ answer' \in Answers(meant)
          /\ response' = response \o Serialized(answer')
  /\ request' = NoLine
  /\ session' = IF meant = Quit THEN "ended" ELSE "open"
  /\ UNCHANGED <<client, line, meant, read>>

Serves ==
  /\ session = "open" /\ request # NoLine
  /\ answer' \in Answers(meant)
  /\ response' = response \o Serialized(answer')
  /\ request' = NoLine
  /\ session' = IF meant = Quit THEN "ended" ELSE "open"
  /\ UNCHANGED <<client, line, meant, read>>

\* The server dies: part of a response may be lost, and data that it had not
\* read makes the end of the connection a reset.
Dies ==
  /\ session = "open"
  /\ session' \in {"closed", "reset"} /\ (request # NoLine => session' = "reset")
  /\ \E n \in 0 .. Len(response) : response' = SubSeq(response, 1, n)
  /\ request' = NoLine
  /\ UNCHANGED <<client, line, meant, read, answer>>

-----------------------------------------------------------------------------
Client == ReadsOne \/ ReadsLine \/ ReadsEnd \/ ReadFails \/ GoesOn

Next == Types \/ Leaves \/ Client \/ Serves \/ Dies

Spec == Init /\ [][Next]_vars

\* The client and the server run; nobody has to type, and nothing has to die.
FairSpec == Spec /\ WF_vars(Client) /\ WF_vars(Serves)

-----------------------------------------------------------------------------
(* Properties                                                              *)

\* The beginnings of a text, by their lengths, without its carriage returns and line feeds.
Skips(c) == c \in {CarriageReturn, LineFeed}

KeptUpTo(text) ==
  LET kept[n \in 0 .. Len(text)] ==
        IF n = 0 THEN <<>>
        ELSE IF Skips(text[n]) THEN kept[n - 1] ELSE Append(kept[n - 1], text[n])
  IN kept

Kept(text) == KeptUpTo(text)[Len(text)]

\* What the server answered to this line is what is shown, but for carriage returns,
\* or its beginning where the server died; and then nothing of it is left over, so
\* that no response is ever shown for another request.
Answered == Kept(Serialized(answer))

ResponsesPaired ==
  /\ client = "shown" =>
       /\ answer \in Answers(meant)
       /\ read = SubSeq(Answered, 1, Len(read))
       /\ read = Answered \/ session = "closed"
  /\ client \in {"shown", "prompt"} => request = NoLine /\ response = <<>>

\* The client takes its leave exactly when the server has, however QUIT was spelt:
\* neither is left waiting for the other.
QuitTogether == /\ client = "quit"   => session = "ended"
                /\ client = "prompt" => session # "ended"

\* Every line that is sent gets its response or an error, blank and malformed ones too.
RequestsReturn == client = "reading" ~> client # "reading"

\* A request that was understood is understood the same when written in its
\* documented form; and the other commands name its key by the same text, in whatever
\* layout it was given, but for the whitespace that SET keeps at the end of a key:
\* what is stored under such a key can be neither got nor deleted.
KeysCanBeNamed ==
  line # NoLine /\ meant.type # "invalid" =>
    /\ Parsed(Written(meant)) = meant
    /\ meant # Quit => \A type \in {"get", "del"} :
         Parsed(Written([type |-> type, key |-> meant.key]))
           = [type |-> type, key |-> TrimRight(meant.key)]
=============================================================================
