--------------------------- MODULE PttProviderProofs ---------------------------
(***************************************************************************)
(* What a supervised PTT call may believe, for every request, reply, limit    *)
(* and order of events of module PttProvider: a certain answer is true, a    *)
(* refused key command never keys, and an unkey that is certain stays.       *)
(***************************************************************************)
EXTENDS PttProvider, SequenceTheorems, WellFoundedInduction, TLAPS

-----------------------------------------------------------------------------
(* Replies that show nothing but states of the rig from a given set.           *)

Tags == {"header", "ptt", "rprt", "status", "type", "length", "blank", "value", "ack", "fault"}
Tokens == [tag : Tags, n : Int]
showsState(token) ==
  \/ token.tag = "ptt" /\ token.n \in 0 .. 3
  \/ token.tag = "value" /\ token.n \in 0 .. 1
Honest(shown) == {token \in Tokens : showsState(token) => (token.n # 0) \in shown}

-----------------------------------------------------------------------------
(* The inductive invariant.                                                 *)

(* Places tell what is there.                                                *)
PlaceInv ==
  /\ place # "reading" => reply = <<>>
  /\ place # "ended" => ended = NoAnswer
  /\ place = "reading" => exchange.sent = RequestLength
  /\ place # "idle" => call.number > 0 /\ exchange.command \in {call.action, "query"}

NumbersInv == \A i \in DOMAIN queue : queue[i].number <= call.number

(* What was read and what is still to be read was so during the call.          *)
HonestInv ==
  /\ reply \in Seq(Honest(seen))
  /\ ended.state \in {"keyed", "unkeyed"} => (ended.state = "keyed") \in seen

(* The key command of this call is not with the daemon.                       *)
Untaken ==
  ~taken /\ \A i \in DOMAIN queue : queue[i].command # "key" \/ queue[i].number < call.number

(* What is kept of how much was sent is not less than what was sent, unless     *)
(* the call ends without a readback.                                         *)
KeyInv ==
  /\ call.action = "key" =>
       /\ place \in {"connecting", "writing"} /\ exchange.command = "key" => Untaken
       /\ place = "ended" /\ exchange.command = "key" /\ ended.sent < RequestLength =>
            Untaken \/ (ended.hasError /\ ended.sent = 0)
       /\ place # "idle" /\ exchange.command = "query" /\ setResult.sent < RequestLength =>
            Untaken
  /\ RefusedNeverKeys

isCurrent(entry) == entry.number = call.number /\ entry.command = exchange.command

(* A daemon that serves in order has nothing left when it answers the command   *)
(* that came last.                                                          *)
OrderInv ==
  /\ place # "idle" /\ exchange.command # "query" =>
       \A i \in DOMAIN queue : queue[i].number = call.number => queue[i].command # "query"
  /\ place \in {"connecting", "writing"} => \A i \in DOMAIN queue : ~isCurrent(queue[i])
  /\ place = "reading" =>
       /\ \A i \in DOMAIN queue : isCurrent(queue[i]) <=> i = Len(queue)
       /\ queue # <<>> => reply = <<>>
       /\ reply \in Seq(Honest({rig # 0}))
  /\ place = "ended" /\ ended.state = "unkeyed" => rig = 0 /\ queue = <<>>
  /\ place = "idle" /\ result.certainty = "definitelyUnkeyed" => rig = 0 /\ queue = <<>>

ProviderInv == TypeOK /\ PlaceInv /\ NumbersInv /\ HonestInv /\ KeyInv

-----------------------------------------------------------------------------
(* Replies.                                                                 *)

(* A token that shows no state is honest of any.                            *)
LEMMA PlainIsHonest ==
  ASSUME NEW shown, NEW token \in Tokens, ~showsState(token) PROVE token \in Honest(shown)
BY DEF Honest

(* The tokens that can show a state show this one.                           *)
LEMMA StateIsHonest ==
  ASSUME NEW shown, NEW value \in Int, (value # 0) \in shown
  PROVE  Token("ptt", value) \in Honest(shown) /\ Token("value", value) \in Honest(shown)
<1>1. Token("ptt", value) \in Tokens /\ Token("value", value) \in Tokens
  BY DEF Tokens, Token, Tags
<1>2. (Token("ptt", value).n # 0) \in shown /\ (Token("value", value).n # 0) \in shown
  BY DEF Token
<1> QED
  BY <1>1, <1>2 DEF Honest

(* The tokens that the daemon writes and that show nothing.                    *)
Plain == {Token("rprt", 0), Token("rprt", -1), Token("status", 200), Token("type", 1),
          Token("length", 1), Token("blank", 0), Token("ack", 0), Token("fault", 0)}

(* They are honest, and noise never reads as a state.                        *)
LEMMA OthersAreHonest == ASSUME NEW shown PROVE Plain \cup Noise \subseteq Honest(shown)
<1>1. \A token \in Plain \cup Noise : token \in Tokens
  BY DEF Plain, Noise, Tokens, Token, Tags
<1>2. \A token \in Plain \cup Noise : ~showsState(token)
  BY DEF Plain, Noise, showsState, Token
<1> QED
  BY <1>1, <1>2, PlainIsHonest

(* The first line of a reply names the command and shows no state.          *)
LEMMA HeaderIsHonest ==
  ASSUME NEW shown, NEW command \in Actions PROVE Header(command) \in Honest(shown)
<1>1. \E n \in Int : Header(command) = Token("header", n)
  <2>1. CASE command = "query"
    BY <2>1 DEF Header
  <2>2. CASE command = "key"
    BY <2>2 DEF Header
  <2>3. CASE command = "unkey"
    BY <2>3 DEF Header
  <2> QED
    BY <2>1, <2>2, <2>3 DEF Actions
<1>2. PICK n \in Int : Header(command) = Token("header", n)
  BY <1>1
<1>3. Token("header", n) \in Tokens /\ ~showsState(Token("header", n))
  BY DEF Tokens, Token, Tags, showsState
<1> QED
  BY <1>2, <1>3, PlainIsHonest

(* A reply that is not damaged shows the state it was asked for, or none.      *)
LEMMA AnswerIsHonest ==
  ASSUME NEW shown, NEW command \in Actions, NEW value \in Int,
         command = "query" => (value # 0) \in shown
  PROVE  /\ TrueReply(command, value) \in Seq(Honest(shown))
         /\ Refusal(command) \in Seq(Honest(shown))
<1> DEFINE S == Honest(shown)
<1>1. /\ Header(command) \in S /\ Token("rprt", 0) \in S /\ Token("rprt", -1) \in S
      /\ Token("status", 200) \in S /\ Token("type", 1) \in S /\ Token("length", 1) \in S
      /\ Token("blank", 0) \in S /\ Token("ack", 0) \in S /\ Token("fault", 0) \in S
  <2>1. Plain \subseteq S
    BY OthersAreHonest
  <2>2. Header(command) \in S
    BY HeaderIsHonest
  <2> QED
    BY <2>1, <2>2 DEF Plain
<1>2. command = "query" => Token("ptt", value) \in S /\ Token("value", value) \in S
  BY StateIsHonest
<1> HIDE DEF S
<1>3. HttpHeader \in Seq(S)
  BY <1>1 DEF HttpHeader
<1>4. /\ <<Header(command)>> \in Seq(S) /\ <<Token("rprt", 0)>> \in Seq(S) /\ <<>> \in Seq(S)
      /\ <<Token("fault", 0)>> \in Seq(S) /\ <<Token("ack", 0)>> \in Seq(S)
      /\ <<Header(command), Token("rprt", -1)>> \in Seq(S)
  BY <1>1
<1>5. command = "query" =>
        <<Token("ptt", value)>> \in Seq(S) /\ <<Token("value", value)>> \in Seq(S)
  BY <1>2
<1>6. TrueReply(command, value) \in Seq(S)
  <2>1. CASE provider = "rigctld"
    <3> DEFINE middle == IF command = "query" THEN <<Token("ptt", value)>> ELSE <<>>
    <3>1. middle \in Seq(S)
      BY <1>4, <1>5
    <3> HIDE DEF middle
    <3>2. <<Header(command)>> \o middle \in Seq(S)
      BY <1>4, <3>1, ConcatProperties
    <3>3. (<<Header(command)>> \o middle) \o <<Token("rprt", 0)>> \in Seq(S)
      BY <1>4, <3>2, ConcatProperties
    <3> QED
      BY <2>1, <3>3 DEF TrueReply, middle
  <2>2. CASE provider # "rigctld"
    <3> DEFINE body == <<IF command = "query" THEN Token("value", value) ELSE Token("ack", 0)>>
    <3>1. body \in Seq(S)
      BY <1>4, <1>5
    <3> HIDE DEF body
    <3>2. HttpHeader \o body \in Seq(S)
      BY <1>3, <3>1, ConcatProperties
    <3> QED
      BY <2>2, <3>2 DEF TrueReply, body
  <2> QED
    BY <2>1, <2>2
<1>7. Refusal(command) \in Seq(S)
  <2>1. HttpHeader \o <<Token("fault", 0)>> \in Seq(S)
    BY <1>3, <1>4, ConcatProperties
  <2> QED
    BY <1>4, <2>1 DEF Refusal
<1> QED
  BY <1>6, <1>7 DEF S

(* Without an element, with an element replaced, with one more.               *)
LEMMA DamagedShape ==
  ASSUME NEW S, Noise \subseteq S, NEW tokens \in Seq(S) PROVE Damaged(tokens) \subseteq Seq(S)
<1>1. DOMAIN tokens = 1 .. Len(tokens) /\ Len(tokens) \in Nat
  BY LenProperties
<1>2. ASSUME NEW i \in DOMAIN tokens PROVE RemoveAt(tokens, i) \in Seq(S)
  <2>1. SubSeq(tokens, 1, i - 1) \in Seq(S) /\ SubSeq(tokens, i + 1, Len(tokens)) \in Seq(S)
    BY <1>1, <1>2
  <2> QED
    BY <2>1, ConcatProperties DEF RemoveAt
<1>3. ASSUME NEW i \in DOMAIN tokens, NEW noise \in Noise PROVE ReplaceAt(tokens, i, noise) \in Seq(S)
  BY <1>1, <1>3, ExceptSeq DEF ReplaceAt
<1>4. ASSUME NEW noise \in Noise PROVE Append(tokens, noise) \in Seq(S)
  BY AppendProperties
<1> QED
  BY <1>2, <1>3, <1>4 DEF Damaged

(* There is a first blank line if there is one.                              *)
LEMMA HeaderShape ==
  ASSUME NEW S, NEW tokens \in Seq(S), headerOf(tokens) # <<>>
  PROVE  \E first \in 1 .. Len(tokens) : headerOf(tokens) = SubSeq(tokens, 1, first)
<1> DEFINE blanks == {i \in 1 .. Len(tokens) : tokens[i].tag = "blank"}
           isFirst(i) == tokens[i].tag = "blank" /\ \A j \in 1 .. i - 1 : tokens[j].tag # "blank"
<1>1. DOMAIN tokens = 1 .. Len(tokens) /\ Len(tokens) \in Nat
  BY LenProperties
<1>2. \E i \in DOMAIN tokens : tokens[i].tag = "blank"
  BY DEF headerOf
<1>3. blanks # {} /\ blanks \subseteq Nat
  BY <1>1, <1>2
<1>4. PICK least \in blanks : \A other \in blanks : <<other, least>> \notin OpToRel(<, Nat)
  BY <1>3, WFMin, NatLessThanWellFounded
<1>5. \A other \in blanks : ~(other < least)
  BY <1>3, <1>4 DEF OpToRel
<1>6. \E i \in DOMAIN tokens : isFirst(i)
  BY <1>1, <1>5
<1> DEFINE first == CHOOSE i \in DOMAIN tokens : isFirst(i)
<1>7. first \in DOMAIN tokens
  BY <1>6
<1>8. headerOf(tokens) = SubSeq(tokens, 1, first)
  BY <1>2 DEF headerOf
<1> QED
  BY <1>1, <1>7, <1>8

(* A whole reply of rigctld that parses as a state is one that shows it.       *)
LEMMA ResponseIsTrue ==
  ASSUME NEW shown, NEW lines \in Seq(Honest(shown)), NEW command \in Actions,
         ~isMalformedResponse(lines, command), Len(lines) = expectedLines(lines, command),
         parseResponse(lines, command) \in {"keyed", "unkeyed"}
  PROVE  (parseResponse(lines, command) = "keyed") \in shown
<1>1. Len(lines) \in Nat /\ DOMAIN lines = 1 .. Len(lines)
  BY LenProperties
<1>2. Len(lines) \in {2, 3} /\ Last(lines) = lines[Len(lines)]
  BY <1>1 DEF expectedLines, Last
<1>3. lines[2] \in Honest(shown) /\ lines[2].n \in Int
  BY <1>1, <1>2 DEF Honest, Tokens
<1>4. Last(lines).n = 0 /\ command = "query" /\ parseResponse(lines, command) = stateOf(lines[2].n)
  BY DEF parseResponse
<1>5. ~isRefusedQuery(lines, command)
  BY <1>2, <1>3, <1>4 DEF isMalformedResponse, isRefusedQuery, expectedLines
<1>6. lines[2].tag = "ptt" /\ lines[2].n \in 0 .. 3
  BY <1>2, <1>4, <1>5 DEF isMalformedResponse
<1>7. (lines[2].n # 0) \in shown
  BY <1>3, <1>6 DEF Honest, showsState
<1>8. (stateOf(lines[2].n) = "keyed") = (lines[2].n # 0)
  BY DEF stateOf
<1> QED
  BY <1>4, <1>7, <1>8

(* The same of flrig, whose body is what follows the header.                  *)
LEMMA HttpResponseIsTrue ==
  ASSUME NEW shown, NEW tokens \in Seq(Honest(shown)), NEW command \in Actions,
         headerOf(tokens) # <<>>, parseXmlResponse(tokens, command) \in {"keyed", "unkeyed"}
  PROVE  (parseXmlResponse(tokens, command) = "keyed") \in shown
<1> DEFINE body == SubSeq(tokens, Len(headerOf(tokens)) + 1, Len(tokens))
<1>1. PICK first \in 1 .. Len(tokens) : headerOf(tokens) = SubSeq(tokens, 1, first)
  BY HeaderShape
<1>2. Len(tokens) \in Nat /\ Len(headerOf(tokens)) = first
  BY <1>1, LenProperties
<1>3. body \in Seq(Honest(shown))
  BY <1>1, <1>2
<1>4. Len(body) = 1 /\ (\E v \in 0 .. 1 : body = <<Token("value", v)>>)
        /\ parseXmlResponse(tokens, command) = stateOf(body[1].n)
  BY DEF parseXmlResponse
<1> HIDE DEF body
<1>5. PICK v \in 0 .. 1 : body[1] = Token("value", v)
  BY <1>4
<1>6. body[1] \in Honest(shown)
  BY <1>3, <1>4
<1>7. body[1].tag = "value" /\ body[1].n = v
  BY <1>5 DEF Token
<1>8. (body[1].n # 0) \in shown
  BY <1>6, <1>7 DEF Honest, showsState
<1>9. (stateOf(body[1].n) = "keyed") = (body[1].n # 0)
  BY DEF stateOf
<1> QED
  BY <1>4, <1>8, <1>9

-----------------------------------------------------------------------------
(* Type correctness.                                                        *)

(* The constants of the exchange have their types.                            *)
LEMMA ConstantTypes ==
  /\ NoAnswer \in Answers /\ NoExchange \in Exchanges /\ NoSet \in SetResults
  /\ NoCall \in Calls /\ Unknown \in Results
BY LimitsAssumption
   DEF NoAnswer, NoExchange, NoSet, NoCall, Unknown, Answers, Exchanges, SetResults, Calls,
       Results, Actions, Certainties, States

(* A result without an answer is one, whatever it says of keying.              *)
LEMMA UnknownType ==
  ASSUME NEW may \in BOOLEAN PROVE [Unknown EXCEPT !.mayHaveKeyed = may] \in Results
BY ConstantTypes DEF Results

(* What execute() returns of an answer is a result.                         *)
LEMMA ResultType ==
  ASSUME NEW certainty \in Certainties, NEW hasError \in BOOLEAN, NEW may \in BOOLEAN
  PROVE  [certainty |-> certainty, hasError |-> hasError, mayHaveKeyed |-> may] \in Results
BY DEF Results

(* What an exchange returns is an answer.                                   *)
LEMMA AnswerType ==
  ASSUME NEW hasError \in BOOLEAN, NEW sent \in 0 .. RequestLength, NEW state \in States
  PROVE  [hasError |-> hasError, sent |-> sent, state |-> state] \in Answers
BY DEF Answers

(* A phase has its own limit.                                                *)
LEMMA PhaseType == ASSUME NEW left \in 0 .. CallTicks PROVE phaseOf(left) \in 0 .. PhaseTicks
BY LimitsAssumption DEF phaseOf, Lesser

(* An exchange that begins has the type of one.                             *)
LEMMA OpenType ==
  ASSUME NEW command \in Actions, NEW left \in 0 .. CallTicks, Open(command, left)
  PROVE  place' \in Places /\ exchange' \in Exchanges
BY PhaseType, LimitsAssumption DEF Open, Places, Exchanges

(* So has one that is over.                                                 *)
LEMMA EndType ==
  ASSUME TypeOK, NEW answer \in Answers, End(answer)
  PROVE  place' \in Places /\ exchange' \in Exchanges /\ ended' \in Answers
BY LimitsAssumption DEF TypeOK, End, Places, Exchanges

(* A call that is over leaves everything with its type.                     *)
LEMMA ReturnType ==
  ASSUME TypeOK, NEW certainty \in Certainties, NEW hasError \in BOOLEAN, NEW may \in BOOLEAN,
         Return(certainty, hasError, may), providerFrame
  PROVE  TypeOK'
<1> DEFINE isKey == call.action = "key"
           answer == [certainty |-> certainty, hasError |-> hasError, mayHaveKeyed |-> may]
           late == [Unknown EXCEPT !.mayHaveKeyed = isKey]
<1>1. isKey \in BOOLEAN
  OBVIOUS
<1> HIDE DEF isKey
<1>2. answer \in Results /\ late \in Results
  BY <1>1, ResultType, UnknownType
<1> HIDE DEF answer, late
<1>3. result' \in {answer, late}
  BY DEF Return, answer, late, isKey
<1>4. place' \in Places /\ setResult' = NoSet /\ ended' = NoAnswer /\ exchange' = NoExchange
        /\ UNCHANGED <<call, reply, seen, taken, provider, rig, queue>>
  BY DEF Return, providerFrame, Places
<1> QED
  BY <1>2, <1>3, <1>4, ConstantTypes DEF TypeOK, RigValues

(* What a reply can parse as.                                                *)
LEMMA ParsedValues ==
  ASSUME NEW tokens, NEW command
  PROVE  parse(tokens, command) \in {"malformed", "refused", "done", "keyed", "unkeyed"}
BY DEF parse, parseResponse, parseXmlResponse, stateOf

(* A state that was read is one of the certainties.                         *)
LEMMA CertaintyValues == ASSUME NEW state PROVE certaintyOf(state) \in Certainties
<1>1. CASE state = "keyed"
  BY <1>1 DEF certaintyOf, Certainties
<1>2. CASE state = "unkeyed"
  BY <1>2 DEF certaintyOf, Certainties
<1>3. CASE state \notin {"keyed", "unkeyed"}
  BY <1>3 DEF certaintyOf, Certainties
<1> QED
  BY <1>1, <1>2, <1>3

(* What Receive takes: an error, the answer, or more of it.                   *)
receivedOf(count) == SubSeq(reply, 1, count)
isBad(state) == state \in {"malformed", "refused"}
kept(state) == IF isBad(state) THEN "none" ELSE state

(* One read ends the exchange with an error, with its answer, or not at all.*)
LEMMA ReceiveCases ==
  ASSUME Receive
  PROVE  /\ place = "reading" /\ UNCHANGED queue /\ exchangeFrame
         /\ \E count \in exchange.received + 1 .. Len(reply) :
              \/ End([hasError |-> TRUE, sent |-> exchange.sent, state |-> "none"])
              \/ /\ isComplete(receivedOf(count), exchange.command)
                 /\ \E state \in {parse(receivedOf(count), exchange.command)} :
                      End([hasError |-> isBad(state), sent |-> exchange.sent, state |-> kept(state)])
              \/ /\ count <= MaxTokens /\ exchange' = [exchange EXCEPT !.received = count]
                 /\ UNCHANGED <<place, ended, reply>>
<1>1. PICK count \in exchange.received + 1 .. Len(reply) :
        LET tokens == SubSeq(reply, 1, count)
            command == exchange.command
        IN
        IF count > MaxTokens \/ isMalformed(tokens, command)
        THEN End([hasError |-> TRUE, sent |-> exchange.sent, state |-> "none"])
        ELSE IF isComplete(tokens, command)
        THEN LET state == parse(tokens, command) IN
             End([hasError |-> state \in {"malformed", "refused"}, sent |-> exchange.sent,
                  state |-> IF state \in {"malformed", "refused"} THEN "none" ELSE state])
        ELSE exchange' = [exchange EXCEPT !.received = count] /\ UNCHANGED <<place, ended, reply>>
  BY DEF Receive
<1>2. CASE count > MaxTokens \/ isMalformed(receivedOf(count), exchange.command)
  BY <1>1, <1>2 DEF receivedOf, Receive
<1>3. CASE ~(count > MaxTokens \/ isMalformed(receivedOf(count), exchange.command))
             /\ isComplete(receivedOf(count), exchange.command)
  BY <1>1, <1>3 DEF receivedOf, Receive, isBad, kept
<1>4. CASE ~(count > MaxTokens \/ isMalformed(receivedOf(count), exchange.command))
             /\ ~isComplete(receivedOf(count), exchange.command)
  <2>1. ~(count > MaxTokens) => count <= MaxTokens
    BY LimitsAssumption
  <2> QED
    BY <1>1, <1>4, <2>1 DEF receivedOf, Receive
<1> QED
  BY <1>2, <1>3, <1>4

(* A call that begins leaves everything with its type.                      *)
LEMMA ExecuteType == ASSUME TypeOK, NEW action \in Actions, Execute(action) PROVE TypeOK'
<1> USE LimitsAssumption
<1> DEFINE isKey == action = "key"
           late == [Unknown EXCEPT !.mayHaveKeyed = isKey]
<1>1. isKey \in BOOLEAN
  OBVIOUS
<1> HIDE DEF isKey
<1>2. late \in Results
  BY <1>1, UnknownType
<1> HIDE DEF late
<1>3. PICK left \in {0, CallTicks} :
         /\ call' = [action |-> action, left |-> left, number |-> call.number + 1]
         /\ \/ result' = late /\ UNCHANGED <<place, exchange, reply>>
            \/ Open(action, left) /\ UNCHANGED result
  BY DEF Execute, late, isKey
<1>4. call' \in Calls
  BY <1>3 DEF TypeOK, Execute, Calls
<1>5. place' \in Places /\ exchange' \in Exchanges /\ result' \in Results
  BY <1>2, <1>3, OpenType DEF TypeOK
<1>6. seen' \subseteq BOOLEAN /\ taken' \in BOOLEAN
  BY DEF Execute
<1> QED
  BY <1>4, <1>5, <1>6 DEF TypeOK, Execute, providerFrame, RigValues

(* So does a part of the request that is sent,                              *)
LEMMA SendType == ASSUME TypeOK, PlaceInv, Send PROVE TypeOK'
<1>1. PICK count \in 1 .. RequestLength - exchange.sent :
       \/ /\ queue' = Append(queue, [command |-> exchange.command, number |-> call.number])
          /\ place' = "reading"
          /\ exchange' = [exchange EXCEPT !.sent = RequestLength, !.phase = phaseOf(call.left)]
       \/ /\ exchange' = [exchange EXCEPT !.sent = @ + count]
          /\ UNCHANGED <<queue, place>>
  BY DEF Send
<1>2. phaseOf(call.left) \in 0 .. PhaseTicks
  BY PhaseType DEF TypeOK, Calls
<1>3. exchange' \in Exchanges
  <2>1. exchange \in Exchanges /\ exchange.sent \in 0 .. RequestLength
    BY DEF TypeOK, Exchanges
  <2>2. exchange.sent + count \in 0 .. RequestLength /\ RequestLength \in 0 .. RequestLength
    BY <2>1, LimitsAssumption
  <2> QED
    BY <1>1, <1>2, <2>1, <2>2 DEF Exchanges
<1>4. [command |-> exchange.command, number |-> call.number] \in Entries
  BY DEF TypeOK, PlaceInv, Send, Exchanges, Calls, Entries
<1>5. queue' \in Seq(Entries) /\ place' \in Places
  BY <1>1, <1>4, AppendProperties DEF TypeOK, Places
<1> QED
  BY <1>3, <1>5 DEF TypeOK, Send, exchangeFrame, RigValues

(* and a part of the reply that is read.                                    *)
LEMMA ReceiveType == ASSUME TypeOK, Receive PROVE TypeOK'
<1>1. PICK count \in exchange.received + 1 .. Len(reply) :
        \/ End([hasError |-> TRUE, sent |-> exchange.sent, state |-> "none"])
        \/ \E state \in {parse(receivedOf(count), exchange.command)} :
             End([hasError |-> isBad(state), sent |-> exchange.sent, state |-> kept(state)])
        \/ /\ count <= MaxTokens /\ exchange' = [exchange EXCEPT !.received = count]
           /\ UNCHANGED <<place, ended, reply>>
  BY ReceiveCases
<1>2. UNCHANGED queue /\ exchangeFrame
  BY ReceiveCases
<1>3. exchange.sent \in 0 .. RequestLength /\ "none" \in States
  BY DEF TypeOK, Exchanges, States
<1>4. CASE End([hasError |-> TRUE, sent |-> exchange.sent, state |-> "none"])
  <2>1. [hasError |-> TRUE, sent |-> exchange.sent, state |-> "none"] \in Answers
    BY <1>3, AnswerType
  <2> QED
    BY <1>2, <1>4, <2>1, EndType DEF TypeOK, exchangeFrame, RigValues
<1>5. CASE \E state \in {parse(receivedOf(count), exchange.command)} :
             End([hasError |-> isBad(state), sent |-> exchange.sent, state |-> kept(state)])
  <2>1. PICK state \in {parse(receivedOf(count), exchange.command)} :
             End([hasError |-> isBad(state), sent |-> exchange.sent, state |-> kept(state)])
    BY <1>5
  <2>2. state \in {"malformed", "refused", "done", "keyed", "unkeyed"}
    BY ParsedValues
  <2>3. isBad(state) \in BOOLEAN /\ kept(state) \in States
    BY <2>2 DEF isBad, kept, States
  <2>4. [hasError |-> isBad(state), sent |-> exchange.sent, state |-> kept(state)] \in Answers
    BY <1>3, <2>3, AnswerType
  <2> QED
    BY <1>2, <2>1, <2>4, EndType DEF TypeOK, exchangeFrame, RigValues
<1>6. CASE /\ count <= MaxTokens /\ exchange' = [exchange EXCEPT !.received = count]
           /\ UNCHANGED <<place, ended, reply>>
  <2>1. exchange' \in Exchanges
    BY <1>6, LimitsAssumption DEF TypeOK, Exchanges
  <2> QED
    BY <1>2, <1>6, <2>1 DEF TypeOK, exchangeFrame, RigValues
<1> QED
  BY <1>1, <1>4, <1>5, <1>6

(* What RemoveAt leaves.                                                     *)
LEMMA RemoveShape ==
  ASSUME NEW S, NEW seq \in Seq(S), NEW i \in DOMAIN seq
  PROVE  /\ RemoveAt(seq, i) \in Seq(S) /\ Len(RemoveAt(seq, i)) = Len(seq) - 1
         /\ \A j \in 1 .. Len(seq) - 1 :
              RemoveAt(seq, i)[j] = IF j < i THEN seq[j] ELSE seq[j + 1]
<1> DEFINE before == SubSeq(seq, 1, i - 1)
           after == SubSeq(seq, i + 1, Len(seq))
<1>1. DOMAIN seq = 1 .. Len(seq) /\ Len(seq) \in Nat /\ i \in 1 .. Len(seq)
  BY LenProperties
<1>2. before \in Seq(S) /\ after \in Seq(S) /\ Len(before) = i - 1 /\ Len(after) = Len(seq) - i
  BY <1>1
<1>3. /\ \A j \in 1 .. i - 1 : before[j] = seq[j]
      /\ \A j \in 1 .. Len(seq) - i : after[j] = seq[i + j]
  BY <1>1
<1>4. RemoveAt(seq, i) = before \o after
  BY DEF RemoveAt
<1> HIDE DEF before, after
<1>5. /\ before \o after \in Seq(S) /\ Len(before \o after) = Len(seq) - 1
      /\ \A j \in 1 .. Len(seq) - 1 :
           (before \o after)[j] = IF j <= i - 1 THEN before[j] ELSE after[j - (i - 1)]
  <2>1. /\ before \o after \in Seq(S)
        /\ Len(before \o after) = Len(before) + Len(after)
        /\ \A j \in 1 .. Len(before) + Len(after) :
             (before \o after)[j] = IF j <= Len(before) THEN before[j] ELSE after[j - Len(before)]
    BY <1>2, ConcatProperties
  <2>2. Len(before) + Len(after) = Len(seq) - 1
    BY <1>1, <1>2
  <2> QED
    BY <1>2, <2>1, <2>2
<1>6. ASSUME NEW j \in 1 .. Len(seq) - 1
      PROVE  (before \o after)[j] = IF j < i THEN seq[j] ELSE seq[j + 1]
  <2>1. CASE j < i
    BY <1>1, <1>3, <1>5, <2>1
  <2>2. CASE ~(j < i)
    <3>1. (before \o after)[j] = after[j - (i - 1)]
      BY <1>1, <1>5, <2>2
    <3>2. j - (i - 1) \in 1 .. Len(seq) - i /\ i + (j - (i - 1)) = j + 1
      BY <1>1, <2>2
    <3> QED
      BY <1>3, <2>2, <3>1, <3>2
  <2> QED
    BY <2>1, <2>2
<1> QED
  BY <1>4, <1>5, <1>6

(* The rig stays within what the provider can report of it.                   *)
LEMMA ServeType == ASSUME TypeOK, NEW i \in DOMAIN queue, Serve(i) PROVE TypeOK'
<1>1. queue \in Seq(Entries) /\ queue[i].command \in Actions
  <2>1. queue \in Seq(Entries) /\ i \in 1 .. Len(queue)
    BY LenProperties DEF TypeOK
  <2>2. queue[i] \in Entries
    BY <2>1
  <2> QED
    BY <2>1, <2>2 DEF Entries
<1>2. queue' \in Seq(Entries)
  BY <1>1, RemoveShape DEF Serve
<1>3. valueFor(queue[i].command) \in RigValues
  <2>1. CASE queue[i].command = "key"
    BY <2>1 DEF valueFor, RigValues
  <2>2. CASE queue[i].command = "unkey"
    BY <2>2 DEF valueFor, RigValues
  <2>3. CASE queue[i].command = "query"
    BY <2>3 DEF valueFor, RigValues, TypeOK
  <2> QED
    BY <1>1, <2>1, <2>2, <2>3 DEF Actions
<1>4. rig' \in {valueFor(queue[i].command), rig}
  BY DEF Serve
<1>5. rig' \in RigValues'
  BY <1>3, <1>4 DEF TypeOK, RigValues, Serve
<1>6. seen' \subseteq BOOLEAN /\ taken' \in BOOLEAN
  BY DEF TypeOK, Serve
<1>7. UNCHANGED <<provider, call, place, exchange, ended, setResult, result>>
  BY DEF Serve, clientVars
<1> QED
  BY <1>2, <1>5, <1>6, <1>7 DEF TypeOK

(* Every action keeps the types.                                            *)
LEMMA TypeStep == ASSUME TypeOK, PlaceInv, [Next]_vars PROVE TypeOK'
<1> USE LimitsAssumption
<1>1. ASSUME NEW action \in Actions, Execute(action) PROVE TypeOK'
  BY <1>1, ExecuteType
<1>2. ASSUME Connect PROVE TypeOK'
  <2>1. phaseOf(call.left) \in 0 .. PhaseTicks
    BY PhaseType DEF TypeOK, Calls
  <2>2. exchange' \in Exchanges /\ place' \in Places
    BY <1>2, <2>1 DEF TypeOK, Connect, Exchanges, Places
  <2> QED
    BY <1>2, <2>2 DEF TypeOK, Connect, exchangeFrame, RigValues
<1>3. ASSUME Send PROVE TypeOK'
  BY <1>3, SendType
<1>4. ASSUME Receive PROVE TypeOK'
  BY <1>4, ReceiveType
<1>5. ASSUME NEW answer \in Answers, End(answer), UNCHANGED queue, exchangeFrame PROVE TypeOK'
  BY <1>5, EndType DEF TypeOK, exchangeFrame, RigValues
<1>6. ASSUME Fail \/ TimeOut PROVE TypeOK'
  <2>1. [hasError |-> TRUE, sent |-> exchange.sent, state |-> "none"] \in Answers
    BY AnswerType DEF TypeOK, Exchanges, States
  <2> QED
    BY <1>5, <1>6, <2>1 DEF Fail, TimeOut
<1>7. ASSUME ThrowExchange PROVE TypeOK'
  BY <1>5, <1>7, ConstantTypes DEF ThrowExchange
<1>8. ASSUME EndSet PROVE TypeOK'
  <2>1. ended.hasError \in BOOLEAN /\ ended.sent \in 0 .. RequestLength /\ call.left \in 0 .. CallTicks
    BY DEF TypeOK, Answers, Calls
  <2>2. CASE isSetOver
    <3>1. Return(certaintyWithoutReadback, ended.hasError, mayHaveKeyed(ended.sent)) /\ providerFrame
      BY <1>8, <2>2 DEF EndSet
    <3>2. certaintyWithoutReadback \in Certainties /\ mayHaveKeyed(ended.sent) \in BOOLEAN
      BY DEF certaintyWithoutReadback, Certainties, mayHaveKeyed
    <3> QED
      BY <2>1, <3>1, <3>2, ReturnType
  <2>3. CASE ~isSetOver
    <3>1. /\ setResult' = [hasError |-> ended.hasError, sent |-> ended.sent]
          /\ Open("query", call.left) /\ ended' = NoAnswer
          /\ UNCHANGED <<call, result, seen, taken>> /\ providerFrame
      BY <1>8, <2>3 DEF EndSet
    <3>2. setResult' \in SetResults
      BY <2>1, <3>1 DEF SetResults
    <3>3. place' \in Places /\ exchange' \in Exchanges
      BY <2>1, <3>1, OpenType DEF Actions
    <3> QED
      BY <3>1, <3>2, <3>3, ConstantTypes DEF TypeOK, providerFrame, RigValues
  <2> QED
    BY <2>2, <2>3
<1>9. ASSUME EndQuery PROVE TypeOK'
  <2>1. certaintyOf(ended.state) \in Certainties
    BY CertaintyValues
  <2> DEFINE hasError == ended.hasError \/ setResult.hasError \/ ended.state \notin expected
             may == mayHaveKeyed(setResult.sent)
  <2>2. hasError \in BOOLEAN /\ may \in BOOLEAN
    BY DEF mayHaveKeyed
  <2>3. Return(certaintyOf(ended.state), hasError, may) /\ providerFrame
    BY <1>9 DEF EndQuery
  <2> HIDE DEF hasError, may
  <2> QED
    BY <2>1, <2>2, <2>3, ReturnType
<1>10. ASSUME ThrowCall PROVE TypeOK'
  <2> DEFINE may == call.action = "key"
  <2>1. may \in BOOLEAN
    OBVIOUS
  <2>2. Return("indeterminate", TRUE, may) /\ providerFrame
    BY <1>10 DEF ThrowCall
  <2> HIDE DEF may
  <2> QED
    BY <2>1, <2>2, ReturnType DEF Certainties
<1>11. ASSUME Tick PROVE TypeOK'
  <2>1. call' \in Calls
    BY <1>11 DEF TypeOK, Tick, Calls
  <2>2. exchange' \in Exchanges
    BY <1>11 DEF TypeOK, Tick, Exchanges, remaining
  <2> QED
    BY <1>11, <2>1, <2>2 DEF TypeOK, Tick, daemonVars, RigValues
<1>12. ASSUME ServeNext PROVE TypeOK'
  BY <1>12, ServeType DEF ServeNext
<1>13. ASSUME UNCHANGED vars PROVE TypeOK'
  BY <1>13 DEF TypeOK, vars, clientVars, daemonVars, RigValues
<1> QED
  BY <1>1, <1>2, <1>3, <1>4, <1>6, <1>7, <1>8, <1>9, <1>10, <1>11, <1>12, <1>13 DEF Next

-----------------------------------------------------------------------------
(* Places, numbers, and the key command.                                     *)

(* The queue after a command was taken holds no other command.                *)
LEMMA QueueAfterServe ==
  ASSUME TypeOK, NEW i \in DOMAIN queue, Serve(i)
  PROVE  /\ DOMAIN queue = 1 .. Len(queue) /\ Len(queue) \in Nat /\ queue[i] \in Entries
         /\ queue' \in Seq(Entries) /\ Len(queue') = Len(queue) - 1
         /\ \A j \in DOMAIN queue' : \E k \in DOMAIN queue : queue'[j] = queue[k]
<1>1. queue \in Seq(Entries) /\ DOMAIN queue = 1 .. Len(queue) /\ Len(queue) \in Nat
  BY LenProperties DEF TypeOK
<1>2. queue[i] \in Entries
  BY <1>1
<1>3. queue' = RemoveAt(queue, i)
  BY DEF Serve
<1>4. /\ queue' \in Seq(Entries) /\ Len(queue') = Len(queue) - 1
      /\ \A j \in 1 .. Len(queue) - 1 : queue'[j] = IF j < i THEN queue[j] ELSE queue[j + 1]
  <2>1. /\ RemoveAt(queue, i) \in Seq(Entries) /\ Len(RemoveAt(queue, i)) = Len(queue) - 1
        /\ \A j \in 1 .. Len(queue) - 1 :
             RemoveAt(queue, i)[j] = IF j < i THEN queue[j] ELSE queue[j + 1]
    BY <1>1, RemoveShape, Zenon
  <2> QED
    BY <1>3, <2>1, Zenon
<1>5. DOMAIN queue' = 1 .. Len(queue) - 1
  BY <1>4, LenProperties
<1>6. ASSUME NEW j \in DOMAIN queue' PROVE \E k \in DOMAIN queue : queue'[j] = queue[k]
  <2>1. j \in 1 .. Len(queue) - 1 /\ j \in DOMAIN queue /\ j + 1 \in DOMAIN queue
    BY <1>1, <1>5
  <2>2. queue'[j] = queue[j] \/ queue'[j] = queue[j + 1]
    BY <1>4, <2>1
  <2> QED
    BY <2>1, <2>2
<1> QED
  BY <1>1, <1>2, <1>4, <1>6

(* The queue after a whole request was sent ends with it.                     *)
LEMMA QueueAfterSend ==
  ASSUME TypeOK, PlaceInv, Send
  PROVE  \/ /\ UNCHANGED <<queue, place>>
            /\ exchange'.command = exchange.command
         \/ /\ place' = "reading" /\ exchange'.command = exchange.command
            /\ exchange'.sent = RequestLength
            /\ Len(queue') = Len(queue) + 1 /\ DOMAIN queue' = 1 .. Len(queue) + 1
            /\ Len(queue) \in Nat /\ DOMAIN queue = 1 .. Len(queue)
            /\ queue'[Len(queue) + 1].command = exchange.command
            /\ queue'[Len(queue) + 1].number = call.number
            /\ \A j \in 1 .. Len(queue) : queue'[j] = queue[j]
<1>1. PICK count \in 1 .. RequestLength - exchange.sent :
       \/ /\ queue' = Append(queue, [command |-> exchange.command, number |-> call.number])
          /\ place' = "reading"
          /\ exchange' = [exchange EXCEPT !.sent = RequestLength, !.phase = phaseOf(call.left)]
       \/ /\ exchange' = [exchange EXCEPT !.sent = @ + count]
          /\ UNCHANGED <<queue, place>>
  BY DEF Send
<1>2. exchange \in Exchanges /\ queue \in Seq(Entries)
  BY DEF TypeOK
<1>3. [command |-> exchange.command, number |-> call.number] \in Entries
  BY DEF TypeOK, PlaceInv, Send, Exchanges, Calls, Entries
<1>4. CASE /\ queue' = Append(queue, [command |-> exchange.command, number |-> call.number])
           /\ place' = "reading"
           /\ exchange' = [exchange EXCEPT !.sent = RequestLength, !.phase = phaseOf(call.left)]
  <2> DEFINE entry == [command |-> exchange.command, number |-> call.number]
  <2>1. entry.command = exchange.command /\ entry.number = call.number /\ entry \in Entries
    BY <1>3
  <2>2. queue' = Append(queue, entry)
    BY <1>4
  <2> HIDE DEF entry
  <2>3. Len(queue) \in Nat /\ DOMAIN queue = 1 .. Len(queue)
    BY <1>2, LenProperties
  <2>4. /\ queue' \in Seq(Entries) /\ Len(queue') = Len(queue) + 1
        /\ queue'[Len(queue) + 1] = entry
        /\ \A j \in 1 .. Len(queue) : queue'[j] = queue[j]
    BY <1>2, <2>1, <2>2, <2>3, AppendProperties
  <2>5. DOMAIN queue' = 1 .. Len(queue) + 1
    BY <2>4, LenProperties
  <2>6. exchange'.command = exchange.command /\ exchange'.sent = RequestLength
    BY <1>2, <1>4 DEF Exchanges
  <2> QED
    BY <1>4, <2>1, <2>3, <2>4, <2>5, <2>6, Zenon
<1>5. CASE exchange' = [exchange EXCEPT !.sent = @ + count] /\ UNCHANGED <<queue, place>>
  BY <1>2, <1>5 DEF Exchanges
<1> QED
  BY <1>1, <1>4, <1>5

(* What the actions do that end the exchange, or do not.                      *)
LEMMA EndOfExchange ==
  ASSUME TypeOK, Receive \/ Fail \/ ThrowExchange \/ TimeOut
  PROVE  /\ place \in {"connecting", "writing", "reading"} /\ UNCHANGED queue /\ exchangeFrame
         /\ exchange'.command = exchange.command /\ exchange'.sent = exchange.sent
         /\ \/ place = "reading" /\ UNCHANGED <<place, ended, reply>>
            \/ /\ place' = "ended" /\ reply' = <<>>
               /\ \/ ended'.sent = exchange.sent
                  \/ ended'.sent = 0 /\ ended'.hasError
<1>1. exchange \in Exchanges
  BY DEF TypeOK
<1>2. ASSUME NEW answer, End(answer), answer.sent = exchange.sent \/ (answer.sent = 0 /\ answer.hasError)
      PROVE  /\ exchange'.command = exchange.command /\ exchange'.sent = exchange.sent
             /\ place' = "ended" /\ reply' = <<>>
             /\ ended'.sent = exchange.sent \/ (ended'.sent = 0 /\ ended'.hasError)
  BY <1>1, <1>2 DEF End, Exchanges
<1>3. CASE Receive
  <2>1. PICK count \in exchange.received + 1 .. Len(reply) :
        \/ End([hasError |-> TRUE, sent |-> exchange.sent, state |-> "none"])
        \/ \E state \in {parse(receivedOf(count), exchange.command)} :
             End([hasError |-> isBad(state), sent |-> exchange.sent, state |-> kept(state)])
        \/ /\ count <= MaxTokens /\ exchange' = [exchange EXCEPT !.received = count]
           /\ UNCHANGED <<place, ended, reply>>
    BY <1>3, ReceiveCases
  <2>2. place = "reading" /\ UNCHANGED queue /\ exchangeFrame
    BY <1>3, ReceiveCases
  <2>3. CASE End([hasError |-> TRUE, sent |-> exchange.sent, state |-> "none"])
    BY <1>2, <2>2, <2>3
  <2>4. CASE \E state \in {parse(receivedOf(count), exchange.command)} :
             End([hasError |-> isBad(state), sent |-> exchange.sent, state |-> kept(state)])
    <3>1. PICK state : End([hasError |-> isBad(state), sent |-> exchange.sent, state |-> kept(state)])
      BY <2>4
    <3>2. [hasError |-> isBad(state), sent |-> exchange.sent, state |-> kept(state)].sent = exchange.sent
      OBVIOUS
    <3> QED
      BY <1>2, <2>2, <3>1, <3>2
  <2>5. CASE /\ count <= MaxTokens /\ exchange' = [exchange EXCEPT !.received = count]
             /\ UNCHANGED <<place, ended, reply>>
    BY <1>1, <2>2, <2>5 DEF Exchanges
  <2> QED
    BY <2>1, <2>3, <2>4, <2>5
<1>4. CASE Fail \/ TimeOut
  <2>1. /\ place \in {"connecting", "writing", "reading"} /\ UNCHANGED queue /\ exchangeFrame
        /\ End([hasError |-> TRUE, sent |-> exchange.sent, state |-> "none"])
    BY <1>4 DEF Fail, TimeOut
  <2> QED
    BY <1>2, <2>1
<1>5. CASE ThrowExchange
  <2>1. /\ place \in {"connecting", "writing", "reading"} /\ UNCHANGED queue /\ exchangeFrame
        /\ End(NoAnswer) /\ NoAnswer.sent = 0 /\ NoAnswer.hasError
    BY <1>5 DEF ThrowExchange, NoAnswer
  <2> QED
    BY <1>2, <2>1
<1> QED
  BY <1>3, <1>4, <1>5

(* What the actions do that end a call, or begin its readback.                 *)
LEMMA EndOfCall ==
  ASSUME TypeOK, EndSet \/ EndQuery \/ ThrowCall
  PROVE  /\ place = "ended" /\ UNCHANGED <<provider, rig, queue, call, seen, taken>>
         /\ ended' = NoAnswer
         /\ \/ /\ place' = "idle" /\ UNCHANGED reply
               /\ \/ result'.certainty = "indeterminate"
                  \/ /\ exchange.command = "query" /\ result'.certainty = certaintyOf(ended.state)
                     /\ result'.mayHaveKeyed = mayHaveKeyed(setResult.sent)
            \/ /\ place' = "connecting" /\ reply' = <<>> /\ UNCHANGED result
               /\ exchange.command # "query" /\ exchange'.command = "query"
               /\ ~isSetOver /\ setResult'.sent = ended.sent
<1>1. ASSUME NEW certainty, NEW hasError, NEW may, Return(certainty, hasError, may)
      PROVE  /\ place' = "idle" /\ ended' = NoAnswer /\ UNCHANGED <<call, reply, seen, taken>>
             /\ \/ result'.certainty = "indeterminate"
                \/ result'.certainty = certainty /\ result'.mayHaveKeyed = may
  <2>1. CASE result' = [certainty |-> certainty, hasError |-> hasError, mayHaveKeyed |-> may]
    <3>1. result'.certainty = certainty /\ result'.mayHaveKeyed = may
      BY <2>1
    <3> QED
      BY <1>1, <3>1 DEF Return
  <2>2. CASE result' = [Unknown EXCEPT !.mayHaveKeyed = call.action = "key"]
    <3>1. result'.certainty = "indeterminate"
      BY <2>2 DEF Unknown
    <3> QED
      BY <1>1, <3>1 DEF Return
  <2> QED
    BY <1>1, <2>1, <2>2 DEF Return
<1>2. CASE EndSet
  <2>1. CASE isSetOver
    <3>1. Return(certaintyWithoutReadback, ended.hasError, mayHaveKeyed(ended.sent))
      BY <1>2, <2>1 DEF EndSet
    <3> QED
      BY <1>1, <1>2, <3>1 DEF EndSet, providerFrame, certaintyWithoutReadback
  <2>2. CASE ~isSetOver
    <3>1. /\ setResult' = [hasError |-> ended.hasError, sent |-> ended.sent]
          /\ Open("query", call.left) /\ ended' = NoAnswer
          /\ UNCHANGED <<call, result, seen, taken>> /\ providerFrame
          /\ place = "ended" /\ exchange.command # "query"
      BY <1>2, <2>2 DEF EndSet
    <3>2. setResult'.sent = ended.sent
      BY <3>1
    <3>3. place' = "connecting" /\ exchange'.command = "query" /\ reply' = <<>>
      BY <3>1 DEF Open
    <3> QED
      BY <2>2, <3>1, <3>2, <3>3 DEF providerFrame
  <2> QED
    BY <2>1, <2>2
<1>3. CASE EndQuery
  <2>1. PICK hasError : Return(certaintyOf(ended.state), hasError, mayHaveKeyed(setResult.sent))
    BY <1>3 DEF EndQuery
  <2> QED
    BY <1>1, <1>3, <2>1 DEF EndQuery, providerFrame
<1>4. CASE ThrowCall
  <2>1. Return("indeterminate", TRUE, call.action = "key")
    BY <1>4 DEF ThrowCall
  <2>2. \E may : Return("indeterminate", TRUE, may)
    BY <2>1
  <2> QED
    BY <1>1, <1>4, <2>2 DEF ThrowCall, providerFrame
<1> QED
  BY <1>2, <1>3, <1>4

(* How a call begins.                                                       *)
LEMMA BeginOfCall ==
  ASSUME TypeOK, NEW action \in Actions, Execute(action)
  PROVE  /\ place = "idle" /\ UNCHANGED <<provider, rig, queue, ended, setResult>>
         /\ call'.action = action /\ call'.number = call.number + 1
         /\ seen' = {rig # 0} /\ ~taken'
         /\ \/ UNCHANGED <<place, exchange, reply>> /\ result'.certainty = "indeterminate"
            \/ /\ place' = "connecting" /\ exchange'.command = action /\ reply' = <<>>
               /\ UNCHANGED result
<1>1. PICK left \in {0, CallTicks} :
         /\ call' = [action |-> action, left |-> left, number |-> call.number + 1]
         /\ \/ /\ result' = [Unknown EXCEPT !.mayHaveKeyed = action = "key"]
               /\ UNCHANGED <<place, exchange, reply>>
            \/ Open(action, left) /\ UNCHANGED result
  BY DEF Execute
<1>2. call'.action = action /\ call'.number = call.number + 1
  BY <1>1
<1>3. CASE /\ result' = [Unknown EXCEPT !.mayHaveKeyed = action = "key"]
           /\ UNCHANGED <<place, exchange, reply>>
  <2>1. result'.certainty = "indeterminate"
    BY <1>3 DEF Unknown
  <2> QED
    BY <1>2, <1>3, <2>1 DEF Execute, providerFrame
<1>4. CASE Open(action, left) /\ UNCHANGED result
  BY <1>2, <1>4 DEF Execute, providerFrame, Open
<1> QED
  BY <1>1, <1>3, <1>4

(* What a command that is taken leaves alone.                                 *)
LEMMA ServeEffect ==
  ASSUME NEW i \in DOMAIN queue, Serve(i)
  PROVE  /\ UNCHANGED <<provider, call, place, exchange, ended, setResult, result>>
         /\ seen' = seen \cup {rig' # 0}
         /\ taken' = (taken \/ (queue[i].command = "key" /\ queue[i].number = call.number))
         /\ place # "reading" => reply' = reply
BY DEF Serve, clientVars

(* The commands with the daemon, by their positions.                        *)
LEMMA QueueTypes ==
  ASSUME TypeOK
  PROVE  /\ queue \in Seq(Entries) /\ DOMAIN queue = 1 .. Len(queue) /\ Len(queue) \in Nat
         /\ \A j \in DOMAIN queue : queue[j].number \in Nat /\ queue[j].command \in Actions
<1>1. queue \in Seq(Entries) /\ DOMAIN queue = 1 .. Len(queue) /\ Len(queue) \in Nat
  BY LenProperties DEF TypeOK
<1>2. \A j \in DOMAIN queue : queue[j] \in Entries
  BY <1>1
<1> QED
  BY <1>1, <1>2 DEF Entries

(* Every action keeps the places.                                           *)
LEMMA PlaceStep == ASSUME TypeOK, PlaceInv, [Next]_vars PROVE PlaceInv'
<1>1. ASSUME NEW action \in Actions, Execute(action) PROVE PlaceInv'
  <2>1. call.number \in Nat
    BY DEF TypeOK, Calls
  <2> QED
    BY <1>1, <2>1, BeginOfCall DEF PlaceInv
<1>2. ASSUME Connect PROVE PlaceInv'
  <2>1. exchange'.command = exchange.command
    BY <1>2 DEF Connect, TypeOK, Exchanges
  <2> QED
    BY <1>2, <2>1 DEF Connect, exchangeFrame, PlaceInv
<1>3. ASSUME Send PROVE PlaceInv'
  <2>1. place = "writing" /\ UNCHANGED <<ended, reply, call>>
    BY <1>3 DEF Send, exchangeFrame
  <2> QED
    BY <1>3, <2>1, QueueAfterSend DEF PlaceInv
<1>4. ASSUME Receive \/ Fail \/ ThrowExchange \/ TimeOut PROVE PlaceInv'
  BY <1>4, EndOfExchange DEF PlaceInv, exchangeFrame
<1>5. ASSUME EndSet \/ EndQuery \/ ThrowCall PROVE PlaceInv'
  BY <1>5, EndOfCall DEF PlaceInv
<1>6. ASSUME Tick PROVE PlaceInv'
  <2>1. /\ exchange'.command = exchange.command /\ exchange'.sent = exchange.sent
        /\ call'.action = call.action /\ call'.number = call.number
    BY <1>6 DEF Tick, TypeOK, Exchanges, Calls
  <2> QED
    BY <1>6, <2>1 DEF Tick, daemonVars, PlaceInv
<1>7. ASSUME ServeNext PROVE PlaceInv'
  BY <1>7, ServeEffect DEF ServeNext, PlaceInv
<1>8. ASSUME UNCHANGED vars PROVE PlaceInv'
  BY <1>8 DEF PlaceInv, vars, clientVars, daemonVars
<1> QED
  BY <1>1, <1>2, <1>3, <1>4, <1>5, <1>6, <1>7, <1>8 DEF Next

(* No command is of a later call.                                           *)
LEMMA NumbersStep == ASSUME TypeOK, PlaceInv, NumbersInv, [Next]_vars PROVE NumbersInv'
<1>0. call.number \in Nat /\ \A j \in DOMAIN queue : queue[j].number \in Nat
  BY QueueTypes DEF TypeOK, Calls
<1>1. ASSUME NEW action \in Actions, Execute(action) PROVE NumbersInv'
  BY <1>0, <1>1, BeginOfCall DEF NumbersInv
<1>2. ASSUME UNCHANGED queue, call'.number = call.number PROVE NumbersInv'
  BY <1>2 DEF NumbersInv
<1>3. ASSUME Connect \/ Receive \/ Fail \/ ThrowExchange \/ TimeOut \/ EndSet \/ EndQuery \/ ThrowCall
      PROVE  NumbersInv'
  BY <1>2, <1>3, EndOfExchange, EndOfCall DEF Connect, exchangeFrame
<1>4. ASSUME Send PROVE NumbersInv'
  <2>1. UNCHANGED call
    BY <1>4 DEF Send, exchangeFrame
  <2> QED
    <3>1. CASE UNCHANGED queue
      BY <1>2, <2>1, <3>1
    <3>2. CASE /\ Len(queue) \in Nat /\ DOMAIN queue = 1 .. Len(queue)
               /\ DOMAIN queue' = 1 .. Len(queue) + 1
               /\ queue'[Len(queue) + 1].number = call.number
               /\ \A j \in 1 .. Len(queue) : queue'[j] = queue[j]
      <4>1. \A j \in DOMAIN queue' : j \in 1 .. Len(queue) \/ j = Len(queue) + 1
        BY <3>2
      <4> QED
        BY <1>0, <2>1, <3>2, <4>1 DEF NumbersInv
    <3> QED
      BY <1>4, <3>1, <3>2, QueueAfterSend
<1>5. ASSUME Tick PROVE NumbersInv'
  BY <1>2, <1>5 DEF Tick, daemonVars, TypeOK, Calls
<1>6. ASSUME ServeNext PROVE NumbersInv'
  <2>1. PICK i \in DOMAIN queue : Serve(i)
    BY <1>6 DEF ServeNext
  <2>2. UNCHANGED call
    BY <2>1, ServeEffect
  <2>3. \A j \in DOMAIN queue' : \E k \in DOMAIN queue : queue'[j] = queue[k]
    BY <2>1, QueueAfterServe
  <2> QED
    BY <2>2, <2>3 DEF NumbersInv
<1>7. ASSUME UNCHANGED vars PROVE NumbersInv'
  BY <1>2, <1>7 DEF vars, clientVars, daemonVars
<1> QED
  BY <1>1, <1>3, <1>4, <1>5, <1>6, <1>7 DEF Next

-----------------------------------------------------------------------------
(* A command that the daemon does not have, it cannot take.                   *)
LEMMA UntakenServe ==
  ASSUME TypeOK, NumbersInv, Untaken, NEW i \in DOMAIN queue, Serve(i) PROVE Untaken'
<1>1. UNCHANGED call /\ (taken' => queue[i].command = "key" /\ queue[i].number = call.number)
  BY ServeEffect DEF Untaken
<1>2. queue[i].number \in Nat /\ call.number \in Nat
  BY QueueAfterServe DEF Entries, TypeOK, Calls
<1>3. ~taken'
  BY <1>1, <1>2 DEF Untaken
<1>4. \A j \in DOMAIN queue' : \E k \in DOMAIN queue : queue'[j] = queue[k]
  BY QueueAfterServe
<1> QED
  BY <1>1, <1>3, <1>4 DEF Untaken

(* The command of a query does not key.                                       *)
LEMMA UntakenSend ==
  ASSUME TypeOK, PlaceInv, Untaken, Send, exchange.command = "query" PROVE Untaken'
<1>1. UNCHANGED <<call, taken>>
  BY DEF Send, exchangeFrame
<1> QED
  BY <1>1, QueueAfterSend DEF Untaken

(* Whatever may have been sent of a key command is remembered.              *)
LEMMA KeyStep == ASSUME TypeOK, PlaceInv, NumbersInv, KeyInv, [Next]_vars PROVE KeyInv'
<1> DEFINE PartA == place \in {"connecting", "writing"} /\ exchange.command = "key" => Untaken
           PartB == place = "ended" /\ exchange.command = "key" /\ ended.sent < RequestLength =>
                      Untaken \/ (ended.hasError /\ ended.sent = 0)
           PartC == place # "idle" /\ exchange.command = "query" /\ setResult.sent < RequestLength =>
                      Untaken
<1>0. (call.action = "key" => PartA /\ PartB /\ PartC) /\ RefusedNeverKeys
  BY DEF KeyInv
<1>00. SUFFICES (call'.action = "key" => PartA' /\ PartB' /\ PartC') /\ RefusedNeverKeys'
  BY DEF KeyInv
<1>t. call.number \in Nat /\ ended.sent \in Nat /\ exchange.sent \in Nat /\ setResult.sent \in Nat
  BY LimitsAssumption DEF TypeOK, Calls, Answers, Exchanges, SetResults
<1>q. \A j \in DOMAIN queue : queue[j].number \in Nat
  BY QueueTypes
<1>1. ASSUME NEW action \in Actions, Execute(action)
      PROVE  (call'.action = "key" => PartA' /\ PartB' /\ PartC') /\ RefusedNeverKeys'
  <2>1. Untaken'
    BY <1>1, <1>t, <1>q, BeginOfCall DEF Untaken, NumbersInv
  <2> QED
    BY <2>1 DEF Untaken, RefusedNeverKeys
<1>2. ASSUME Connect
      PROVE  (call'.action = "key" => PartA' /\ PartB' /\ PartC') /\ RefusedNeverKeys'
  <2>1. exchange'.command = exchange.command /\ UNCHANGED <<call, queue, taken, setResult>>
        /\ place = "connecting" /\ place' = "writing"
    BY <1>2 DEF Connect, TypeOK, Exchanges, exchangeFrame
  <2> QED
    BY <1>0, <2>1 DEF Untaken, RefusedNeverKeys
<1>3. ASSUME Send
      PROVE  (call'.action = "key" => PartA' /\ PartB' /\ PartC') /\ RefusedNeverKeys'
  <2>1. place = "writing" /\ UNCHANGED <<call, taken, setResult>>
    BY <1>3 DEF Send, exchangeFrame
  <2>2. exchange'.command = exchange.command
          /\ ((UNCHANGED <<queue, place>>) \/ place' = "reading")
    BY <1>3, QueueAfterSend
  <2>3. exchange.command = "query" /\ Untaken => Untaken'
    BY <1>3, UntakenSend
  <2>4. UNCHANGED <<queue, place>> => (Untaken => Untaken')
    BY <2>1 DEF Untaken
  <2> HIDE DEF Untaken
  <2> QED
    BY <1>0, <2>1, <2>2, <2>3, <2>4 DEF RefusedNeverKeys
<1>4. ASSUME Receive \/ Fail \/ ThrowExchange \/ TimeOut
      PROVE  (call'.action = "key" => PartA' /\ PartB' /\ PartC') /\ RefusedNeverKeys'
  <2>1. /\ place \in {"connecting", "writing", "reading"} /\ UNCHANGED <<queue, call, taken, setResult>>
        /\ exchange'.command = exchange.command
        /\ \/ place = "reading" /\ UNCHANGED <<place, ended, reply>>
           \/ /\ place' = "ended" /\ reply' = <<>>
              /\ ended'.sent = exchange.sent \/ (ended'.sent = 0 /\ ended'.hasError)
    BY <1>4, EndOfExchange DEF exchangeFrame
  <2>2. Untaken <=> Untaken'
    BY <2>1 DEF Untaken
  <2>3. place = "reading" => exchange.sent = RequestLength
    BY DEF PlaceInv
  <2>4. RequestLength \in Nat
    BY LimitsAssumption
  <2> QED
    BY <1>0, <1>t, <2>1, <2>2, <2>3, <2>4 DEF RefusedNeverKeys
<1>5. ASSUME EndSet \/ EndQuery \/ ThrowCall
      PROVE  (call'.action = "key" => PartA' /\ PartB' /\ PartC') /\ RefusedNeverKeys'
  <2>1. place = "ended" /\ UNCHANGED <<provider, rig, queue, call, seen, taken>>
    BY <1>5, EndOfCall
  <2>2. Untaken <=> Untaken'
    BY <2>1 DEF Untaken
  <2>3. CASE place' = "idle" /\ result'.certainty = "indeterminate"
    BY <2>3 DEF RefusedNeverKeys
  <2>4. CASE /\ place' = "idle" /\ exchange.command = "query"
             /\ result'.mayHaveKeyed = mayHaveKeyed(setResult.sent)
    <3>1. RefusedNeverKeys'
      <4>1. SUFFICES ASSUME call.action = "key", ~mayHaveKeyed(setResult.sent) PROVE Untaken'
        BY <2>1, <2>4 DEF RefusedNeverKeys, Untaken
      <4>2. setResult.sent < RequestLength
        BY <4>1, LimitsAssumption DEF mayHaveKeyed, TypeOK, SetResults
      <4> QED
        BY <1>0, <2>1, <2>2, <2>4, <4>1, <4>2
    <3> QED
      BY <2>4, <3>1
  <2>5. CASE /\ place' = "connecting" /\ exchange.command # "query" /\ exchange'.command = "query"
             /\ ~isSetOver /\ setResult'.sent = ended.sent
    <3>1. call.action = "key" /\ ended.sent < RequestLength => Untaken
      BY <1>0, <2>1, <2>5 DEF isSetOver, PlaceInv
    <3> QED
      BY <2>1, <2>2, <2>5, <3>1 DEF RefusedNeverKeys
  <2> QED
    BY <1>5, <2>3, <2>4, <2>5, EndOfCall
<1>6. ASSUME Tick
      PROVE  (call'.action = "key" => PartA' /\ PartB' /\ PartC') /\ RefusedNeverKeys'
  <2>1. /\ exchange'.command = exchange.command /\ UNCHANGED <<place, ended, setResult, result, queue, taken>>
        /\ call'.action = call.action /\ call'.number = call.number
    BY <1>6 DEF Tick, TypeOK, Exchanges, Calls, daemonVars
  <2> QED
    BY <1>0, <2>1 DEF Untaken, RefusedNeverKeys
<1>7. ASSUME ServeNext
      PROVE  (call'.action = "key" => PartA' /\ PartB' /\ PartC') /\ RefusedNeverKeys'
  <2>1. PICK i \in DOMAIN queue : Serve(i)
    BY <1>7 DEF ServeNext
  <2>2. UNCHANGED <<provider, call, place, exchange, ended, setResult, result>>
    BY <2>1, ServeEffect
  <2>3. Untaken => Untaken'
    BY <2>1, UntakenServe
  <2>4. RefusedNeverKeys'
    BY <1>0, <2>2, <2>3 DEF RefusedNeverKeys, Untaken
  <2> QED
    BY <1>0, <2>2, <2>3, <2>4
<1>8. ASSUME UNCHANGED vars
      PROVE  (call'.action = "key" => PartA' /\ PartB' /\ PartC') /\ RefusedNeverKeys'
  BY <1>0, <1>8 DEF vars, clientVars, daemonVars, Untaken, RefusedNeverKeys
<1> QED
  BY <1>1, <1>2, <1>3, <1>4, <1>5, <1>6, <1>7, <1>8 DEF Next

-----------------------------------------------------------------------------
(* What a reply shows was so.                                                *)

(* A sequence over a set is one over a larger set.                          *)
LEMMA SeqGrows == ASSUME NEW S, NEW T, S \subseteq T, NEW seq \in Seq(S) PROVE seq \in Seq(T)
<1>1. seq \in [1 .. Len(seq) -> S] /\ Len(seq) \in Nat
  BY LenProperties
<1>2. seq \in [1 .. Len(seq) -> T]
  BY <1>1
<1> QED
  BY <1>1, <1>2

(* A reply stays honest when the rig is seen in another state.              *)
LEMMA HonestGrows ==
  ASSUME NEW shown, NEW more, shown \subseteq more, NEW tokens \in Seq(Honest(shown))
  PROVE  tokens \in Seq(Honest(more))
<1>1. Honest(shown) \subseteq Honest(more)
  BY DEF Honest
<1> QED
  BY <1>1, SeqGrows

(* A reply shows the rig as it is once the command is done.                   *)
LEMMA ServeReply ==
  ASSUME TypeOK, NEW i \in DOMAIN queue, Serve(i), NEW shown, (rig' # 0) \in shown
  PROVE  \/ reply' = reply /\ ~(place = "reading" /\ isCurrent(queue[i]))
         \/ place = "reading" /\ isCurrent(queue[i]) /\ reply' \in Seq(Honest(shown))
<1> DEFINE entry == queue[i]
           S == Honest(shown)
<1>1. PICK isDone \in BOOLEAN :
        /\ rig' = IF isDone THEN valueFor(entry.command) ELSE rig
        /\ LET answer == IF isDone THEN TrueReply(entry.command, rig) ELSE Refusal(entry.command)
           IN reply' \in IF place = "reading" /\ entry.number = call.number
                              /\ entry.command = exchange.command
                         THEN {<<>>, answer} \cup Damaged(answer) ELSE {reply}
  BY DEF Serve
<1>2. CASE ~(place = "reading" /\ isCurrent(entry))
  BY <1>1, <1>2 DEF isCurrent
<1>3. CASE place = "reading" /\ isCurrent(entry)
  <2> DEFINE answer == IF isDone THEN TrueReply(entry.command, rig) ELSE Refusal(entry.command)
  <2>1. reply' \in {<<>>, answer} \cup Damaged(answer)
    BY <1>1, <1>3 DEF isCurrent
  <2>2. entry.command \in Actions /\ rig \in Int /\ 0 \in Int
    BY QueueTypes DEF TypeOK, RigValues
  <2>3. answer \in Seq(S)
    <3>1. CASE isDone /\ entry.command = "query"
      <4>1. valueFor(entry.command) = rig
        BY <3>1 DEF valueFor
      <4>2. (rig # 0) \in shown
        BY <1>1, <3>1, <4>1
      <4> QED
        BY <2>2, <3>1, <4>2, AnswerIsHonest
    <3>2. CASE isDone /\ entry.command # "query"
      BY <2>2, <3>2, AnswerIsHonest
    <3>3. CASE ~isDone
      <4>1. Refusal(entry.command) \in Seq(S)
        <5>1. (rig # 0) \in shown
          BY <1>1, <3>3
        <5> QED
          BY <2>2, <5>1, AnswerIsHonest
      <4> QED
        BY <3>3, <4>1
    <3> QED
      BY <3>1, <3>2, <3>3
  <2> HIDE DEF answer
  <2>4. Noise \subseteq S
    BY OthersAreHonest
  <2> HIDE DEF S
  <2>5. Damaged(answer) \subseteq Seq(S)
    BY <2>3, <2>4, DamagedShape
  <2>6. <<>> \in Seq(S)
    OBVIOUS
  <2> QED
    BY <1>3, <2>1, <2>3, <2>5, <2>6 DEF S
<1> QED
  BY <1>2, <1>3

(* An answer that is a state is one that the reply shows.                     *)
LEMMA ReceiveState ==
  ASSUME TypeOK, NEW shown, reply \in Seq(Honest(shown)), Receive, place' = "ended",
         ended'.state \in {"keyed", "unkeyed"}
  PROVE  (ended'.state = "keyed") \in shown /\ reply # <<>>
<1>1. PICK count \in exchange.received + 1 .. Len(reply) :
        \/ End([hasError |-> TRUE, sent |-> exchange.sent, state |-> "none"])
        \/ /\ isComplete(receivedOf(count), exchange.command)
           /\ \E state \in {parse(receivedOf(count), exchange.command)} :
                End([hasError |-> isBad(state), sent |-> exchange.sent, state |-> kept(state)])
        \/ /\ count <= MaxTokens /\ exchange' = [exchange EXCEPT !.received = count]
           /\ UNCHANGED <<place, ended, reply>>
  BY ReceiveCases
<1>2. place = "reading"
  BY ReceiveCases
<1>3. ~End([hasError |-> TRUE, sent |-> exchange.sent, state |-> "none"])
  <2>1. ASSUME End([hasError |-> TRUE, sent |-> exchange.sent, state |-> "none"]) PROVE FALSE
    <3>1. ended'.state = "none"
      BY <2>1 DEF End
    <3> QED
      BY <3>1
  <2> QED
    BY <2>1
<1>4. PICK state \in {parse(receivedOf(count), exchange.command)} :
        End([hasError |-> isBad(state), sent |-> exchange.sent, state |-> kept(state)])
  BY <1>1, <1>2, <1>3
<1>5. ended'.state = kept(state)
  BY <1>4 DEF End
<1>6. state \in {"keyed", "unkeyed"} /\ ended'.state = state
  BY <1>5 DEF kept
<1>7. isComplete(receivedOf(count), exchange.command)
  BY <1>1, <1>2, <1>3
<1>8. Len(reply) \in Nat /\ exchange.received \in Nat /\ exchange.command \in Actions
  BY LenProperties, LimitsAssumption DEF TypeOK, Exchanges
<1>9. receivedOf(count) \in Seq(Honest(shown)) /\ Len(reply) > 0
  BY <1>8 DEF receivedOf
<1> DEFINE tokens == receivedOf(count)
<1>10. (state = "keyed") \in shown
  <2>1. CASE provider = "rigctld"
    <3>1. /\ ~isMalformedResponse(tokens, exchange.command)
          /\ Len(tokens) = expectedLines(tokens, exchange.command)
          /\ state = parseResponse(tokens, exchange.command)
      BY <1>7, <2>1 DEF isComplete, parse
    <3> QED
      BY <1>6, <1>8, <1>9, <3>1, ResponseIsTrue
  <2>2. CASE provider # "rigctld"
    <3>1. headerOf(tokens) # <<>> /\ state = parseXmlResponse(tokens, exchange.command)
      BY <1>7, <2>2 DEF isComplete, isCompleteHttp, parse
    <3> QED
      BY <1>6, <1>8, <1>9, <3>1, HttpResponseIsTrue
  <2> QED
    BY <2>1, <2>2
<1> QED
  BY <1>6, <1>9, <1>10

(* Every action keeps replies and answers true.                             *)
LEMMA HonestStep == ASSUME TypeOK, PlaceInv, HonestInv, [Next]_vars PROVE HonestInv'
<1> DEFINE States2 == {"keyed", "unkeyed"}
<1>0. NoAnswer.state \notin States2
  BY DEF NoAnswer
<1>e. <<>> \in Seq(Honest(seen'))
  OBVIOUS
<1>1. ASSUME NEW action \in Actions, Execute(action) PROVE HonestInv'
  <2>1. reply' = <<>> /\ ended' = NoAnswer
    BY <1>1, BeginOfCall DEF PlaceInv
  <2> QED
    BY <1>0, <1>e, <2>1 DEF HonestInv
<1>2. ASSUME UNCHANGED <<reply, seen, ended>> PROVE HonestInv'
  BY <1>2 DEF HonestInv
<1>3. ASSUME Connect \/ Send \/ Tick \/ UNCHANGED vars PROVE HonestInv'
  BY <1>2, <1>3 DEF Connect, Send, Tick, exchangeFrame, vars, clientVars, daemonVars
<1>4. ASSUME Receive \/ Fail \/ ThrowExchange \/ TimeOut PROVE HonestInv'
  <2>1. CASE UNCHANGED <<place, ended, reply>>
    BY <1>2, <1>4, <2>1, EndOfExchange DEF exchangeFrame
  <2>2. CASE place' = "ended" /\ reply' = <<>>
    <3>1. UNCHANGED seen
      BY <1>4, EndOfExchange DEF exchangeFrame
    <3>2. Receive /\ ended'.state \in States2 => (ended'.state = "keyed") \in seen
      BY <2>2, ReceiveState DEF HonestInv
    <3>3. ASSUME Fail \/ ThrowExchange \/ TimeOut PROVE ended'.state = "none"
      BY <3>3 DEF Fail, ThrowExchange, TimeOut, End, NoAnswer
    <3> QED
      BY <1>4, <1>e, <2>2, <3>1, <3>2, <3>3 DEF HonestInv
  <2> QED
    BY <1>4, <2>1, <2>2, EndOfExchange
<1>5. ASSUME EndSet \/ EndQuery \/ ThrowCall PROVE HonestInv'
  <2>1. UNCHANGED seen /\ ended' = NoAnswer /\ (UNCHANGED reply \/ reply' = <<>>)
    BY <1>5, EndOfCall
  <2> QED
    BY <1>0, <1>e, <2>1 DEF HonestInv
<1>6. ASSUME ServeNext PROVE HonestInv'
  <2>1. PICK i \in DOMAIN queue : Serve(i)
    BY <1>6 DEF ServeNext
  <2>2. UNCHANGED ended /\ seen' = seen \cup {rig' # 0}
    BY <2>1, ServeEffect
  <2>3. (rig' # 0) \in seen'
    BY <2>2
  <2>4. reply' = reply \/ reply' \in Seq(Honest(seen'))
    BY <2>1, <2>3, ServeReply
  <2>5. reply \in Seq(Honest(seen'))
    BY <2>2, HonestGrows DEF HonestInv
  <2> QED
    BY <2>2, <2>4, <2>5 DEF HonestInv
<1> QED
  BY <1>1, <1>3, <1>4, <1>5, <1>6 DEF Next

-----------------------------------------------------------------------------
(* The order in which the daemon serves.                                      *)

(* Every action keeps the order, of a daemon that serves in it.             *)
LEMMA OrderStep ==
  ASSUME ServesInOrder, TypeOK, PlaceInv, NumbersInv, OrderInv, [Next]_vars PROVE OrderInv'
<1> DEFINE Alone == \A i \in DOMAIN queue : queue[i].number = call.number => queue[i].command # "query"
           Apart == \A i \in DOMAIN queue : ~isCurrent(queue[i])
           LastOne == \A i \in DOMAIN queue : isCurrent(queue[i]) <=> i = Len(queue)
           Waiting == queue # <<>> => reply = <<>>
           Shown == reply \in Seq(Honest({rig # 0}))
           Off == rig = 0 /\ queue = <<>>
<1>0. /\ place # "idle" /\ exchange.command # "query" => Alone
      /\ place \in {"connecting", "writing"} => Apart
      /\ place = "reading" => LastOne /\ Waiting /\ Shown
      /\ place = "ended" /\ ended.state = "unkeyed" => Off
      /\ place = "idle" /\ result.certainty = "definitelyUnkeyed" => Off
  BY DEF OrderInv
<1>00. SUFFICES
         /\ place' # "idle" /\ exchange'.command # "query" => Alone'
         /\ place' \in {"connecting", "writing"} => Apart'
         /\ place' = "reading" => LastOne' /\ Waiting' /\ Shown'
         /\ place' = "ended" /\ ended'.state = "unkeyed" => Off'
         /\ place' = "idle" /\ result'.certainty = "definitelyUnkeyed" => Off'
  BY DEF OrderInv
<1> DEFINE Goal ==
         /\ place' # "idle" /\ exchange'.command # "query" => Alone'
         /\ place' \in {"connecting", "writing"} => Apart'
         /\ place' = "reading" => LastOne' /\ Waiting' /\ Shown'
         /\ place' = "ended" /\ ended'.state = "unkeyed" => Off'
         /\ place' = "idle" /\ result'.certainty = "definitelyUnkeyed" => Off'
<1>t. /\ queue \in Seq(Entries) /\ DOMAIN queue = 1 .. Len(queue) /\ Len(queue) \in Nat
      /\ call.number \in Nat
      /\ \A j \in DOMAIN queue : queue[j].number \in Nat /\ queue[j].command \in Actions
  BY QueueTypes DEF TypeOK, Calls
<1>1. ASSUME NEW action \in Actions, Execute(action) PROVE Goal
  <2>1. \A j \in DOMAIN queue' : queue'[j].number # call'.number
    BY <1>1, <1>t, BeginOfCall DEF NumbersInv
  <2>2. Alone' /\ Apart'
    BY <2>1 DEF isCurrent
  <2>3. \/ place' = "idle" /\ result'.certainty = "indeterminate"
        \/ place' = "connecting"
    BY <1>1, BeginOfCall
  <2> QED
    BY <2>2, <2>3
<1>2. ASSUME Connect PROVE Goal
  <2>1. /\ exchange'.command = exchange.command /\ UNCHANGED <<call, queue>>
        /\ place = "connecting" /\ place' = "writing"
    BY <1>2 DEF Connect, TypeOK, Exchanges, exchangeFrame
  <2> QED
    BY <1>0, <2>1 DEF isCurrent
<1>3. ASSUME Send PROVE Goal
  <2>1. place = "writing" /\ UNCHANGED <<call, reply, rig>>
    BY <1>3 DEF Send, exchangeFrame
  <2>2. reply' = <<>> /\ exchange'.command = exchange.command
    BY <1>3, <2>1, QueueAfterSend DEF PlaceInv
  <2>3. Shown'
    BY <2>2
  <2>4. CASE UNCHANGED <<queue, place>>
    BY <1>0, <2>1, <2>2, <2>4 DEF isCurrent
  <2>5. CASE /\ place' = "reading"
             /\ Len(queue') = Len(queue) + 1 /\ DOMAIN queue' = 1 .. Len(queue) + 1
             /\ queue'[Len(queue) + 1].command = exchange.command
             /\ queue'[Len(queue) + 1].number = call.number
             /\ \A j \in 1 .. Len(queue) : queue'[j] = queue[j]
    <3>1. \A j \in DOMAIN queue' : j \in 1 .. Len(queue) \/ j = Len(queue) + 1
      BY <1>t, <2>5
    <3>2. LastOne'
      <4> DEFINE current(j) == /\ queue'[j].number = call'.number
                               /\ queue'[j].command = exchange'.command
      <4>1. ASSUME NEW j \in 1 .. Len(queue) PROVE ~current(j) /\ j # Len(queue')
        BY <1>0, <1>t, <2>1, <2>2, <2>5 DEF isCurrent
      <4>2. current(Len(queue) + 1)
        BY <2>1, <2>2, <2>5
      <4>3. \A j \in DOMAIN queue' : current(j) <=> j = Len(queue')
        BY <2>5, <3>1, <4>1, <4>2
      <4> QED
        BY <4>3 DEF isCurrent
    <3>3. exchange.command # "query" => Alone'
      BY <1>0, <2>1, <2>5, <3>1
    <3> QED
      BY <2>2, <2>3, <2>5, <3>2, <3>3
  <2> QED
    BY <1>3, <2>4, <2>5, QueueAfterSend
<1>4. ASSUME Receive \/ Fail \/ ThrowExchange \/ TimeOut PROVE Goal
  <2>1. exchange'.command = exchange.command /\ UNCHANGED <<queue, call, rig>> /\ place # "idle"
    BY <1>4, EndOfExchange DEF exchangeFrame
  <2>2. exchange'.command # "query" => Alone'
    BY <1>0, <2>1
  <2>3. CASE UNCHANGED <<place, ended, reply>> /\ place = "reading"
    BY <1>0, <2>1, <2>2, <2>3 DEF isCurrent
  <2>4. CASE place' = "ended"
    <3>1. ASSUME Fail \/ ThrowExchange \/ TimeOut PROVE ended'.state = "none"
      BY <3>1 DEF Fail, ThrowExchange, TimeOut, End, NoAnswer
    <3>2. ASSUME Receive, ended'.state = "unkeyed" PROVE Off
      <4>1. place = "reading"
        BY <3>2, ReceiveCases
      <4>2. (ended'.state = "keyed") \in {rig # 0} /\ reply # <<>>
        BY <1>0, <2>4, <3>2, <4>1, ReceiveState
      <4> QED
        BY <1>0, <3>2, <4>1, <4>2
    <3> QED
      BY <1>4, <2>1, <2>2, <2>4, <3>1, <3>2
  <2> QED
    BY <1>4, <2>3, <2>4, EndOfExchange
<1>5. ASSUME EndSet \/ EndQuery \/ ThrowCall PROVE Goal
  <2>1. place = "ended" /\ UNCHANGED <<rig, queue, call>>
    BY <1>5, EndOfCall
  <2>2. CASE place' = "idle" /\ result'.certainty = "indeterminate"
    BY <2>2
  <2>3. CASE place' = "idle" /\ result'.certainty = certaintyOf(ended.state)
    <3>1. certaintyOf(ended.state) = "definitelyUnkeyed" => ended.state = "unkeyed"
      <4>1. CASE ended.state = "keyed"
        BY <4>1 DEF certaintyOf
      <4>2. CASE ended.state \notin {"keyed", "unkeyed"}
        BY <4>2 DEF certaintyOf
      <4> QED
        BY <4>1, <4>2
    <3> QED
      BY <1>0, <2>1, <2>3, <3>1
  <2>4. CASE place' = "connecting" /\ exchange.command # "query" /\ exchange'.command = "query"
    BY <1>0, <2>1, <2>4 DEF isCurrent
  <2> QED
    BY <1>5, <2>2, <2>3, <2>4, EndOfCall
<1>6. ASSUME Tick PROVE Goal
  <2>1. /\ exchange'.command = exchange.command /\ UNCHANGED <<place, ended, result, queue, rig, reply>>
        /\ call'.action = call.action /\ call'.number = call.number
    BY <1>6 DEF Tick, TypeOK, Exchanges, Calls, daemonVars
  <2> QED
    BY <1>0, <2>1 DEF isCurrent
<1>7. ASSUME ServeNext PROVE Goal
  <2>1. Serve(1) /\ 1 \in DOMAIN queue
    BY <1>7 DEF ServeNext
  <2>2. UNCHANGED <<provider, call, place, exchange, ended, setResult, result>>
    BY <2>1, ServeEffect
  <2>3. /\ queue' \in Seq(Entries) /\ Len(queue') = Len(queue) - 1
        /\ \A j \in 1 .. Len(queue) - 1 : queue'[j] = queue[j + 1]
    <3>1. queue' = RemoveAt(queue, 1)
      BY <2>1 DEF Serve
    <3>2. /\ RemoveAt(queue, 1) \in Seq(Entries) /\ Len(RemoveAt(queue, 1)) = Len(queue) - 1
          /\ \A j \in 1 .. Len(queue) - 1 :
               RemoveAt(queue, 1)[j] = IF j < 1 THEN queue[j] ELSE queue[j + 1]
      BY <1>t, <2>1, RemoveShape, Zenon
    <3>3. ASSUME NEW j \in 1 .. Len(queue) - 1 PROVE ~(j < 1)
      BY <1>t
    <3> QED
      BY <3>1, <3>2, <3>3
  <2>4. DOMAIN queue' = 1 .. Len(queue) - 1
    BY <2>3, LenProperties
  <2>5. \A j \in DOMAIN queue' : j + 1 \in DOMAIN queue /\ queue'[j] = queue[j + 1]
    BY <1>t, <2>3, <2>4
  <2>6. (Alone => Alone') /\ (Apart => Apart')
    BY <2>2, <2>5 DEF isCurrent
  <2>7. queue # <<>>
    BY <1>t, <2>1
  <2>8. ASSUME place = "reading" PROVE LastOne' /\ Waiting' /\ Shown'
    <3>1. LastOne /\ reply = <<>>
      BY <1>0, <2>7, <2>8
    <3>2. LastOne'
      BY <1>t, <2>2, <2>3, <2>4, <2>5, <3>1 DEF isCurrent
    <3>3. CASE isCurrent(queue[1])
      <4>1. Len(queue) = 1
        BY <2>1, <3>1, <3>3
      <4>2. queue' = <<>>
        BY <2>3, <4>1
      <4>3. reply' = reply \/ reply' \in Seq(Honest({rig' # 0}))
        BY <2>1, ServeReply
      <4>4. <<>> \in Seq(Honest({rig' # 0}))
        OBVIOUS
      <4> QED
        BY <3>1, <3>2, <4>2, <4>3, <4>4
    <3>4. CASE ~isCurrent(queue[1])
      <4>1. reply' = <<>>
        <5>1. \A shown : (rig' # 0) \in shown => reply' = reply
          BY <2>1, <3>4, ServeReply
        <5>2. (rig' # 0) \in {rig' # 0}
          OBVIOUS
        <5> QED
          BY <3>1, <5>1, <5>2
      <4>2. <<>> \in Seq(Honest({rig' # 0}))
        OBVIOUS
      <4> QED
        BY <3>2, <4>1, <4>2
    <3> QED
      BY <3>3, <3>4
  <2> QED
    BY <1>0, <2>2, <2>6, <2>7, <2>8
<1>8. ASSUME UNCHANGED vars PROVE Goal
  BY <1>0, <1>8 DEF vars, clientVars, daemonVars, isCurrent
<1> QED
  BY <1>1, <1>2, <1>3, <1>4, <1>5, <1>6, <1>7, <1>8 DEF Next

-----------------------------------------------------------------------------
(* The invariant holds of every execution.                                    *)
LEMMA ProviderInvHolds == Spec => []ProviderInv
<1>1. Init => ProviderInv
  <2> SUFFICES ASSUME Init PROVE ProviderInv
    OBVIOUS
  <2>1. TypeOK
    <3>1. "idle" \in Places /\ <<>> \in Seq(Entries) /\ {} \subseteq BOOLEAN /\ FALSE \in BOOLEAN
      BY DEF Places
    <3> QED
      BY <3>1, ConstantTypes DEF Init, TypeOK
  <2>2. PlaceInv /\ NumbersInv
    BY DEF Init, PlaceInv, NumbersInv
  <2>3. <<>> \in Seq(Honest(seen)) /\ NoAnswer.state = "none"
    BY DEF NoAnswer
  <2>4. HonestInv
    BY <2>3 DEF Init, HonestInv
  <2>5. KeyInv
    BY DEF Init, KeyInv, NoCall, RefusedNeverKeys
  <2> QED
    BY <2>1, <2>2, <2>4, <2>5 DEF ProviderInv
<1>2. ProviderInv /\ [Next]_vars => ProviderInv'
  <2> SUFFICES ASSUME ProviderInv, [Next]_vars PROVE ProviderInv'
    OBVIOUS
  <2>1. TypeOK /\ PlaceInv /\ NumbersInv /\ HonestInv /\ KeyInv
    BY DEF ProviderInv
  <2>2. TypeOK' /\ PlaceInv'
    BY <2>1, TypeStep, PlaceStep
  <2>3. NumbersInv' /\ HonestInv' /\ KeyInv'
    BY <2>1, NumbersStep, HonestStep, KeyStep
  <2> QED
    BY <2>2, <2>3 DEF ProviderInv
<1> QED
  BY <1>1, <1>2, PTL DEF Spec

(* The variables of a provider, its exchange and its daemon have their types.    *)
THEOREM TypeCorrect == Spec => []TypeOK
<1>1. ProviderInv => TypeOK
  BY DEF ProviderInv
<1> QED
  BY <1>1, ProviderInvHolds, PTL

(* The answer that makes the lease forget its hazard, unkeyed and without a      *)
(* doubt of having keyed, is given only of a key command that the daemon did     *)
(* not take and will not take: executeSet() counts as sent whatever could be.    *)
THEOREM RefusedNeverKeysHolds == Spec => []RefusedNeverKeys
<1>1. ProviderInv => RefusedNeverKeys
  BY DEF ProviderInv, KeyInv
<1> QED
  BY <1>1, ProviderInvHolds, PTL

(* A certain answer of execute() is what the rig was at some time during the     *)
(* call, for every reply that is cut off, damaged, late or refused.             *)
THEOREM CertainIsTrueHolds == Spec => CertainIsTrue
<1>1. ProviderInv /\ [Next]_vars =>
        [place # "idle" /\ place' = "idle" /\ result'.certainty # "indeterminate"
           => (result'.certainty = "definitelyKeyed") \in seen]_vars
  <2> SUFFICES ASSUME ProviderInv, Next,
                      place # "idle", place' = "idle", result'.certainty # "indeterminate"
               PROVE  (result'.certainty = "definitelyKeyed") \in seen
    BY DEF vars
  <2>1. TypeOK /\ HonestInv /\ PlaceInv
    BY DEF ProviderInv
  <2>2. EndSet \/ EndQuery \/ ThrowCall
    <3>1. ASSUME NEW action \in Actions, Execute(action) PROVE FALSE
      BY <3>1, <2>1, BeginOfCall
    <3>2. ASSUME Connect \/ Tick PROVE FALSE
      BY <3>2 DEF Connect, Tick
    <3>3. ASSUME Send PROVE FALSE
      BY <3>3, <2>1, QueueAfterSend
    <3>4. ASSUME Receive \/ Fail \/ ThrowExchange \/ TimeOut PROVE FALSE
      BY <3>4, <2>1, EndOfExchange
    <3>5. ASSUME ServeNext PROVE FALSE
      BY <3>5, ServeEffect DEF ServeNext
    <3> QED
      BY <3>1, <3>2, <3>3, <3>4, <3>5 DEF Next
  <2>3. result'.certainty = certaintyOf(ended.state)
    BY <2>1, <2>2, EndOfCall
  <2>4. CASE ended.state = "keyed"
    <3>1. certaintyOf(ended.state) = "definitelyKeyed"
      BY <2>4 DEF certaintyOf
    <3> QED
      BY <2>1, <2>3, <2>4, <3>1 DEF HonestInv
  <2>5. CASE ended.state = "unkeyed"
    <3>1. certaintyOf(ended.state) = "definitelyUnkeyed"
      BY <2>5 DEF certaintyOf
    <3> QED
      BY <2>1, <2>3, <2>5, <3>1 DEF HonestInv
  <2>6. CASE ended.state \notin {"keyed", "unkeyed"}
    <3>1. certaintyOf(ended.state) = "indeterminate"
      BY <2>6 DEF certaintyOf
    <3> QED
      BY <2>3, <3>1
  <2> QED
    BY <2>4, <2>5, <2>6
<1> QED
  BY <1>1, ProviderInvHolds, PTL DEF Spec, CertainIsTrue

(* With a daemon that takes its commands as they arrived, an unkey that is       *)
(* certain stays: the rig is off, and nothing given up before is left to key it.  *)
THEOREM UnkeyIsFinalHolds == ASSUME ServesInOrder PROVE Spec => []UnkeyIsFinal
<1>1. Init => OrderInv
  BY DEF Init, OrderInv, Unknown
<1>2. ProviderInv /\ OrderInv /\ [Next]_vars => OrderInv'
  BY OrderStep DEF ProviderInv
<1>3. OrderInv => UnkeyIsFinal
  BY DEF OrderInv, UnkeyIsFinal
<1> QED
  BY <1>1, <1>2, <1>3, ProviderInvHolds, PTL DEF Spec
=============================================================================
