---------------------------- MODULE PttProvider -----------------------------
(***************************************************************************)
(* One supervised PTT call from its request to its result: the providers    *)
(* src/src/rig/rigctld.cpp and src/src/rig/flrig.cpp with their codecs, the  *)
(* exchange over a TCP connection of its own in src/src/rig/loopback_tcp.cpp *)
(* with its three deadlines, and the deadline of PttSupervisor::execute.     *)
(* Every set command is followed by a query over a second connection.       *)
(*                                                                         *)
(* The daemon is external: it takes a command that arrived whole when it     *)
(* likes, refuses or loses it, and its reply may come in pieces, cut off,    *)
(* or damaged; a reply that is not damaged is true.  A reply is a sequence   *)
(* of tokens, the lines of rigctld or the header fields and body of flrig.   *)
(***************************************************************************)
EXTENDS Integers, Sequences, SequencesExt, FiniteSets

CONSTANTS
  RequestLength,   \* pieces in which a request can be sent
  CallTicks,       \* the deadline of a call, in clock ticks
  PhaseTicks,      \* connectTimeout, writeTimeout and responseTimeout
  MaxTokens,       \* maximumResponseBytes
  MaxCalls,        \* bound on execute()
  ServesInOrder    \* TRUE: the daemon takes commands as they arrived

ASSUME LimitsAssumption ==
  /\ RequestLength \in Nat \ {0} /\ MaxTokens \in Nat /\ MaxCalls \in Nat
  /\ CallTicks \in Nat /\ PhaseTicks \in Nat \ {0}
ASSUME ServesInOrderAssumption == ServesInOrder \in BOOLEAN

VARIABLES
  provider,   \* "rigctld" or "flrig"
  call,       \* the PttRequest: action, ticks left, number
  place,      \* where the exchange is
  exchange,   \* its command, ticks left in the phase, bytes sent, tokens read
  ended,      \* what an exchange that is over returned
  setResult,  \* what executeSet() keeps of its first exchange
  result,     \* the PttOperationResult of the last call
  rig,        \* external: the PTT value of the rig, 0 is off
  queue,      \* external: commands that reached the daemon, not yet taken
  reply,      \* external: the reply on the open connection
  seen,       \* history: whether the rig was on, since the call began
  taken       \* history: the daemon took the key command of the last call

clientVars == <<call, place, exchange, ended, setResult, result>>
daemonVars == <<rig, queue, reply>>
vars == <<provider, clientVars, daemonVars, seen, taken>>

Actions == {"query", "key", "unkey"}
Lesser(a, b) == IF a < b THEN a ELSE b

-----------------------------------------------------------------------------
(* Tokens and replies.                                                      *)

Token(tag, n) == [tag |-> tag, n |-> n]
Header(command) == Token("header", CASE command = "query" -> 2
                                     [] command = "key" -> 1
                                     [] command = "unkey" -> 0)
HttpHeader == <<Token("status", 200), Token("type", 1), Token("length", 1), Token("blank", 0)>>

(* What the daemon answers: the state, an acknowledgement, or its refusal.    *)
TrueReply(command, value) ==
  IF provider = "rigctld"
  THEN <<Header(command)>> \o (IF command = "query" THEN <<Token("ptt", value)>> ELSE <<>>)
         \o <<Token("rprt", 0)>>
  ELSE HttpHeader \o <<IF command = "query" THEN Token("value", value) ELSE Token("ack", 0)>>

Refusal(command) ==
  IF provider = "rigctld" THEN <<Header(command), Token("rprt", -1)>>
  ELSE HttpHeader \o <<Token("fault", 0)>>

(* What a damaged reply may hold in the place of a token.                    *)
Noise == {Token("rprt", 1), Token("rprt", 0), Token("ptt", 4), Token("length", 2), Token("value", 2)}

Damaged(tokens) ==
  {RemoveAt(tokens, i) : i \in DOMAIN tokens}
    \cup {ReplaceAt(tokens, i, noise) : i \in DOMAIN tokens, noise \in Noise}
    \cup {Append(tokens, noise) : noise \in Noise}

(* rigctld reports which input transmits, flrig only that one does.           *)
RigValues == IF provider = "rigctld" THEN 0 .. 3 ELSE 0 .. 1

-----------------------------------------------------------------------------
(* The codecs.  A frame is malformed, complete or still to be continued.      *)

(* rigctld: inspectResponse() and parseResponse().                           *)
isRefusedQuery(lines, command) ==
  command = "query" /\ Len(lines) >= 2 /\ lines[2].tag = "rprt"
expectedLines(lines, command) ==
  IF command = "query" /\ ~isRefusedQuery(lines, command) THEN 3 ELSE 2

isMalformedResponse(lines, command) ==
  \/ lines # <<>> /\ lines[1] # Header(command)
  \/ isRefusedQuery(lines, command) /\ lines[2].n >= 0
  \/ /\ command = "query" /\ Len(lines) >= 2 /\ ~isRefusedQuery(lines, command)
     /\ ~(lines[2].tag = "ptt" /\ lines[2].n \in 0 .. 3)
  \/ Len(lines) > expectedLines(lines, command)
  \/ Len(lines) = expectedLines(lines, command) /\ ~(Last(lines).tag = "rprt" /\ Last(lines).n <= 0)

(* A decoder that takes the generic value only for transmitting.             *)
stateOfGeneric(value) == IF value = 1 THEN "keyed" ELSE "unkeyed"
stateOf(value) == IF value = 0 THEN "unkeyed" ELSE "keyed"

parseResponse(lines, command) ==
  IF isMalformedResponse(lines, command) \/ Len(lines) < expectedLines(lines, command)
  THEN "malformed"
  ELSE IF Last(lines).n # 0 THEN "refused"
  ELSE IF command # "query" THEN "done" ELSE stateOf(lines[2].n)

(* flrig: findHttpMessageLength(), parseHttpResponse() and parseXmlResponse(). *)
headerOf(tokens) ==
  IF \E i \in DOMAIN tokens : tokens[i].tag = "blank"
  THEN SubSeq(tokens, 1, CHOOSE i \in DOMAIN tokens :
         tokens[i].tag = "blank" /\ \A j \in 1 .. i - 1 : tokens[j].tag # "blank")
  ELSE <<>>
contentLengths(header) == {t.n : t \in {u \in Range(header) : u.tag = "length"}}
messageLength(tokens) ==
  Len(headerOf(tokens)) + (CHOOSE n \in contentLengths(headerOf(tokens)) : TRUE)

isMalformedHttp(tokens) ==
  LET header == headerOf(tokens) IN
    /\ header # <<>>
    /\ \/ Cardinality(contentLengths(header)) # 1
       \/ Token("type", 1) \notin Range(Tail(header))
       \/ \E i \in 2 .. Len(header) :
            header[i].tag # "length" /\ header[i] \notin {Token("type", 1), Token("blank", 0)}
       \/ Len(tokens) > messageLength(tokens)

isCompleteHttp(tokens) ==
  headerOf(tokens) # <<>> /\ ~isMalformedHttp(tokens) /\ Len(tokens) = messageLength(tokens)

parseXmlResponse(tokens, command) ==
  LET body == SubSeq(tokens, Len(headerOf(tokens)) + 1, Len(tokens)) IN
    IF tokens[1] # Token("status", 200) \/ Len(body) # 1 THEN "malformed"
    ELSE IF body = <<Token("fault", 0)>> THEN "refused"
    ELSE IF command = "query" /\ body \in {<<Token("value", v)>> : v \in 0 .. 1}
    THEN stateOf(body[1].n)
    ELSE IF command # "query" /\ body = <<Token("ack", 0)>> THEN "done" ELSE "malformed"

isMalformed(tokens, command) ==
  IF provider = "rigctld" THEN isMalformedResponse(tokens, command) ELSE isMalformedHttp(tokens)
isComplete(tokens, command) ==
  IF provider = "rigctld"
  THEN ~isMalformedResponse(tokens, command) /\ Len(tokens) = expectedLines(tokens, command)
  ELSE isCompleteHttp(tokens)
parse(tokens, command) ==
  IF provider = "rigctld" THEN parseResponse(tokens, command) ELSE parseXmlResponse(tokens, command)

-----------------------------------------------------------------------------
NoCall == [action |-> "query", left |-> 0, number |-> 0]
NoExchange == [command |-> "query", phase |-> 0, sent |-> 0, received |-> 0]
NoAnswer == [hasError |-> TRUE, sent |-> 0, state |-> "none"]
NoSet == [hasError |-> FALSE, sent |-> 0]
Unknown == [certainty |-> "indeterminate", hasError |-> TRUE, mayHaveKeyed |-> FALSE]

Certainties == {"definitelyKeyed", "definitelyUnkeyed", "indeterminate"}
Places == {"idle", "connecting", "writing", "reading", "ended"}

States == {"none", "done", "keyed", "unkeyed"}

Calls == [action : Actions, left : 0 .. CallTicks, number : 0 .. MaxCalls]
Exchanges == [command : Actions, phase : 0 .. PhaseTicks,
              sent : 0 .. RequestLength, received : 0 .. MaxTokens]
Answers == [hasError : BOOLEAN, sent : 0 .. RequestLength, state : States]
SetResults == [hasError : BOOLEAN, sent : 0 .. RequestLength]
Results == [certainty : Certainties, hasError : BOOLEAN, mayHaveKeyed : BOOLEAN]
Entries == [command : Actions, number : 1 .. MaxCalls]

TypeOK ==
  /\ provider \in {"rigctld", "flrig"}
  /\ call \in Calls /\ place \in Places /\ exchange \in Exchanges
  /\ ended \in Answers /\ setResult \in SetResults /\ result \in Results
  /\ rig \in RigValues
  /\ queue \in Seq(Entries)
  /\ seen \subseteq BOOLEAN
  /\ taken \in BOOLEAN

(* Somebody may have switched the rig on.                                    *)
Init ==
  /\ provider \in {"rigctld", "flrig"}
  /\ call = NoCall /\ place = "idle" /\ exchange = NoExchange /\ ended = NoAnswer
  /\ setResult = NoSet /\ result = Unknown
  /\ rig \in RigValues
  /\ queue = <<>> /\ reply = <<>>
  /\ seen = {} /\ taken = FALSE

-----------------------------------------------------------------------------
(* The exchange.  A phase begins with its own limit, within the call's.       *)

phaseOf(left) == Lesser(left, PhaseTicks)

Open(command, left) ==
  /\ place' = "connecting"
  /\ exchange' = [command |-> command, phase |-> phaseOf(left), sent |-> 0, received |-> 0]
  /\ reply' = <<>>

(* The exchange is over and its connection closed; a reply to it is nobody's.  *)
End(answer) ==
  /\ place' = "ended"
  /\ ended' = answer
  /\ reply' = <<>>
  /\ exchange' = [exchange EXCEPT !.received = 0]

exchangeFrame == UNCHANGED <<provider, call, setResult, result, rig, seen, taken>>

Connect ==
  /\ place = "connecting"
  /\ place' = "writing"
  /\ exchange' = [exchange EXCEPT !.phase = phaseOf(call.left)]
  /\ UNCHANGED <<ended, queue, reply>>
  /\ exchangeFrame

Send ==
  /\ place = "writing"
  /\ \E count \in 1 .. RequestLength - exchange.sent :
       IF exchange.sent + count = RequestLength
       THEN /\ queue' = Append(queue, [command |-> exchange.command, number |-> call.number])
            /\ place' = "reading"
            /\ exchange' = [exchange EXCEPT !.sent = RequestLength, !.phase = phaseOf(call.left)]
       ELSE /\ exchange' = [exchange EXCEPT !.sent = @ + count]
            /\ UNCHANGED <<queue, place>>
  /\ UNCHANGED <<ended, reply>>
  /\ exchangeFrame

Receive ==
  /\ place = "reading"
  /\ \E received \in exchange.received + 1 .. Len(reply) :
       LET tokens == SubSeq(reply, 1, received)
           command == exchange.command
       IN
       IF received > MaxTokens \/ isMalformed(tokens, command)
       THEN End([hasError |-> TRUE, sent |-> exchange.sent, state |-> "none"])
       ELSE IF isComplete(tokens, command)
       THEN LET state == parse(tokens, command) IN
            End([hasError |-> state \in {"malformed", "refused"}, sent |-> exchange.sent,
                 state |-> IF state \in {"malformed", "refused"} THEN "none" ELSE state])
       ELSE exchange' = [exchange EXCEPT !.received = received] /\ UNCHANGED <<place, ended, reply>>
  /\ UNCHANGED queue
  /\ exchangeFrame

(* Refused, reset, closed by the daemon or failed in another way, anywhere.    *)
Fail ==
  /\ place \in {"connecting", "writing", "reading"}
  /\ End([hasError |-> TRUE, sent |-> exchange.sent, state |-> "none"])
  /\ UNCHANGED queue
  /\ exchangeFrame

(* An exception in exchange() forgets what was sent.                         *)
ThrowExchange ==
  /\ place \in {"connecting", "writing", "reading"}
  /\ End(NoAnswer)
  /\ UNCHANGED queue
  /\ exchangeFrame

(* A reader that waits for its connection and not for its deadline.           *)
isOverUnlessReading == exchange.phase = 0 /\ place # "reading"
isPhaseOver == exchange.phase = 0

TimeOut ==
  /\ place \in {"connecting", "writing", "reading"}
  /\ isPhaseOver
  /\ End([hasError |-> TRUE, sent |-> exchange.sent, state |-> "none"])
  /\ UNCHANGED queue
  /\ exchangeFrame

-----------------------------------------------------------------------------
(* The provider, under the mutex of its PttSupervisor.                        *)

providerFrame == UNCHANGED <<provider, rig, queue>>

(* A result without an error that comes after its deadline is none.           *)
Return(certainty, hasError, mayHaveKeyed) ==
  /\ place' = "idle"
  /\ \/ result' = [certainty |-> certainty, hasError |-> hasError, mayHaveKeyed |-> mayHaveKeyed]
     \/ /\ call.left = 0 /\ ~hasError
        /\ result' = [Unknown EXCEPT !.mayHaveKeyed = call.action = "key"]
  /\ setResult' = NoSet /\ ended' = NoAnswer /\ exchange' = NoExchange
  /\ UNCHANGED <<call, reply, seen, taken>>

(* execute(): the caller before this one may have left no time.               *)
Execute(action) ==
  /\ place = "idle"
  /\ call.number < MaxCalls
  /\ \E left \in {0, CallTicks} :
       /\ call' = [action |-> action, left |-> left, number |-> call.number + 1]
       /\ IF left = 0
          THEN /\ result' = [Unknown EXCEPT !.mayHaveKeyed = action = "key"]
               /\ UNCHANGED <<place, exchange, reply>>
          ELSE Open(action, left) /\ UNCHANGED result
  /\ seen' = {rig # 0}
  /\ taken' = FALSE
  /\ UNCHANGED <<ended, setResult>>
  /\ providerFrame

certaintyOf(state) ==
  CASE state = "keyed" -> "definitelyKeyed"
    [] state = "unkeyed" -> "definitelyUnkeyed"
    [] OTHER -> "indeterminate"

(* A key command that counts only when it was answered.                      *)
mayHaveKeyedIfAnswered(sent) ==
  call.action = "key" /\ sent = RequestLength /\ ~setResult.hasError

(* executeSet(): rigctld takes a command that was cut off for one that was      *)
(* not sent.                                                                *)
mayHaveKeyed(sent) ==
  /\ call.action = "key"
  /\ IF provider = "rigctld" THEN sent = RequestLength ELSE sent > 0

(* It asks for no readback of a key command of which nothing was sent.        *)
isSetOver ==
  \/ call.left = 0
  \/ /\ ended.hasError /\ ended.sent = 0
     /\ provider = "rigctld" => call.action = "key"

(* A result that takes an unkey without readback for done.                    *)
certaintyOfTheAbsent == IF call.action = "unkey" THEN "definitelyUnkeyed" ELSE "indeterminate"

(* A set command that ends without a readback: nothing is known.              *)
certaintyWithoutReadback == "indeterminate"

EndSet ==
  /\ place = "ended"
  /\ exchange.command # "query"
  /\ IF isSetOver
     THEN Return(certaintyWithoutReadback, ended.hasError, mayHaveKeyed(ended.sent))
     ELSE /\ setResult' = [hasError |-> ended.hasError, sent |-> ended.sent]
          /\ Open("query", call.left)
          /\ ended' = NoAnswer
          /\ UNCHANGED <<call, result, seen, taken>>
  /\ providerFrame

expected == CASE call.action = "key" -> {"keyed"} [] call.action = "unkey" -> {"unkeyed"}
              [] call.action = "query" -> {"keyed", "unkeyed"}

(* executeQuery(), alone or as the readback of executeSet().                  *)
EndQuery ==
  /\ place = "ended"
  /\ exchange.command = "query"
  /\ Return(certaintyOf(ended.state),
            ended.hasError \/ setResult.hasError \/ ended.state \notin expected,
            mayHaveKeyed(setResult.sent))
  /\ providerFrame

(* An exception in execute().                                                *)
ThrowCall ==
  /\ place = "ended"
  /\ Return("indeterminate", TRUE, call.action = "key")
  /\ providerFrame

-----------------------------------------------------------------------------
(* The clock, and the daemon.                                               *)

(* A wait that is not over once its time has passed.                         *)
remaining(phase) == IF phase > 0 THEN phase - 1 ELSE 0

Tick ==
  /\ place # "idle"
  /\ call.left > 0
  /\ call' = [call EXCEPT !.left = @ - 1]
  /\ exchange' = [exchange EXCEPT !.phase = remaining(@)]
  /\ UNCHANGED <<provider, place, ended, setResult, result, daemonVars, seen, taken>>

valueFor(command) ==
  CASE command = "key" -> 1 [] command = "unkey" -> 0 [] command = "query" -> rig

(* The daemon takes a command, does it or not, and answers an open connection. *)
Serve(i) ==
  LET entry == queue[i]
      isOpen == place = "reading" /\ entry.number = call.number
                  /\ entry.command = exchange.command
  IN
  /\ queue' = RemoveAt(queue, i)
  /\ \E isDone \in BOOLEAN :
       /\ rig' = IF isDone THEN valueFor(entry.command) ELSE rig
       /\ LET answer == IF isDone THEN TrueReply(entry.command, rig) ELSE Refusal(entry.command)
          IN reply' \in IF isOpen THEN {<<>>, answer} \cup Damaged(answer) ELSE {reply}
       /\ taken' = (taken \/ (entry.command = "key" /\ entry.number = call.number))
  /\ seen' = seen \cup {rig' # 0}
  /\ UNCHANGED <<provider, clientVars>>

ServeNext == \E i \in DOMAIN queue : (ServesInOrder => i = 1) /\ Serve(i)

Next ==
  \/ \E action \in Actions : Execute(action)
  \/ Connect \/ Send \/ Receive \/ Fail \/ ThrowExchange \/ TimeOut
  \/ EndSet \/ EndQuery \/ ThrowCall
  \/ Tick \/ ServeNext

Spec == Init /\ [][Next]_vars

(* The clock advances and the caller's thread runs; the daemon need not.       *)
FairSpec == Spec /\ WF_vars(Tick) /\ WF_vars(TimeOut) /\ WF_vars(EndSet) /\ WF_vars(EndQuery)

-----------------------------------------------------------------------------
(* A certain answer is what the rig was at some time during the call, whatever  *)
(* was cut off, damaged, refused or late.                                    *)
CertainIsTrue ==
  [][place # "idle" /\ place' = "idle" /\ result'.certainty # "indeterminate"
       => (result'.certainty = "definitelyKeyed") \in seen]_vars

(* The answer that makes the lease forget its hazard (unkeyed, and the command  *)
(* cannot have keyed): the key command was not taken and never will be.        *)
RefusedNeverKeys ==
  place = "idle" /\ call.action = "key"
    /\ result.certainty = "definitelyUnkeyed" /\ ~result.mayHaveKeyed
    => ~taken /\ \A i \in DOMAIN queue : queue[i].command # "key" \/ queue[i].number < call.number

(* After an unkey that is certain the rig is off and stays so, although a key    *)
(* command that was given up before may have been with the daemon until then.  *)
UnkeyIsFinal ==
  place = "idle" /\ call.action = "unkey" /\ result.certainty = "definitelyUnkeyed"
    => rig = 0 /\ \A i \in DOMAIN queue : queue[i].command # "key"

(* Every call ends, also if the daemon never answers.                        *)
CallEnds == place # "idle" ~> place = "idle"
=============================================================================
