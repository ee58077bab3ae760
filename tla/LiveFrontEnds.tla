---------------------------- MODULE LiveFrontEnds ----------------------------
(***************************************************************************)
(* The programs that own a LiveTransmitService: the command line            *)
(* (src/apps/cli/live_tx_commands.cpp), the window                          *)
(* (src/apps/gui/live_transmit_model.cpp and its QML), or any other caller   *)
(* of the service's interface.  One of them is chosen in the initial state.  *)
(***************************************************************************)
EXTENDS LiveTransmitService

CONSTANT MaxCalls  \* bound on the calls of checkPtt() and retryUnkey()

ASSUME MaxCallsAssumption == MaxCalls \in Nat

VARIABLES
  owner,           \* where the owner's thread is
  held,            \* the nonce of the confirmation it holds
  cancellationSent,
  gui,             \* what the window shows and remembers
  stopped,         \* history: when each session was asked to stop: before its
                   \* coordinator ran, before its last look at the flags, or after
  overlapped,      \* history: the last session was started during a checkPtt()
  agreed,          \* history: the rig each nonce not yet spent was given for
  calls            \* calls of checkPtt() and retryUnkey() so far

ownerVars == <<owner, held, cancellationSent, gui>>
history == <<stopped, overlapped, agreed, calls>>
vars == <<vars0, ownerVars, history>>

Places == {"free", "open", "confirmed", "configuring", "confirming", "starting",
           "polling", "quitting", "draining", "shutting", "joining", "closed"}

TypeOK ==
  /\ ServiceTypeOK
  /\ owner \in Places
  /\ held \in 0 .. MaxNonces
  /\ cancellationSent \in BOOLEAN
  /\ gui \in [shown : {"inactive", "active", "terminal", "hazard"},
              hasConfiguration : BOOLEAN, closePending : BOOLEAN]
  /\ stopped \in [Sessions -> {"no", "early", "heard", "late"}]
  /\ overlapped \in BOOLEAN
  /\ calls \in 0 .. MaxCalls
  /\ agreed \in [1 .. MaxNonces -> MaybeRig]

Init ==
  /\ ServiceInit
  /\ owner \in {"free", "open", "configuring"}
  /\ held = 0
  /\ cancellationSent = FALSE
  /\ gui = [shown |-> "inactive", hasConfiguration |-> FALSE, closePending |-> FALSE]
  /\ stopped = [s \in Sessions |-> "no"]
  /\ overlapped = FALSE
  /\ calls = 0
  /\ agreed = [n \in 1 .. MaxNonces |-> NoRig]

goTo(place) == owner' = place /\ UNCHANGED <<held, cancellationSent, gui>>

(* The service's calls, with the history they leave.                         *)
Configure(rig) == configure(rig) /\ UNCHANGED history

Confirm ==
  /\ confirm
  /\ agreed' = [agreed EXCEPT ![nextNonce] = configuration]
  /\ UNCHANGED <<stopped, overlapped, calls>>

Start(nonce) ==
  /\ start(nonce)
  /\ agreed' = [agreed EXCEPT ![nonce] = NoRig]
  /\ overlapped' = (checking # NoRig)
  /\ UNCHANGED <<stopped, calls>>

RequestCancel ==
  /\ requestCancel
  /\ stopped' = [s \in Sessions |->
       IF s # worker.session \/ stopped[s] = "heard" THEN stopped[s]
       ELSE CASE worker.at \in {"preparing", "starting"} -> "early"
              [] worker.at = "running" -> "heard"
              [] worker.at = "ending" -> "late"
              [] OTHER -> stopped[s]]
  /\ UNCHANGED <<overlapped, agreed, calls>>

count == calls < MaxCalls /\ calls' = calls + 1 /\ UNCHANGED <<stopped, overlapped, agreed>>
CallCheck(rig) == callCheck(rig) /\ count
CallRetry == callRetry /\ count

-----------------------------------------------------------------------------
(* Any caller.                                                              *)

FreeCall ==
  /\ owner = "free"
  /\ \/ \E rig \in Rigs : Configure(rig) \/ CallCheck(rig)
     \/ Confirm \/ CallRetry \/ RequestCancel
     \/ \E nonce \in 1 .. MaxNonces : Start(nonce)
  /\ UNCHANGED ownerVars

FreeShutdown == owner = "free" /\ RequestCancel /\ goTo("shutting")

-----------------------------------------------------------------------------
(* The command line: runLiveTransmitCommand().                              *)

CliConfigure ==
  /\ owner = "configuring"
  /\ \E rig \in Rigs : Configure(rig)
  /\ goTo("confirming")

CliConfirm ==
  /\ owner = "confirming"
  /\ Confirm
  /\ owner' = "starting"
  /\ held' = nextNonce
  /\ UNCHANGED <<cancellationSent, gui>>

CliStart == owner = "starting" /\ Start(held) /\ goTo("polling")

isTerminal(state) == state \in {"completed", "cancelled", "faulted", "hazardous"}

CliLeaveLoop ==
  /\ owner = "polling"
  /\ isTerminal(snapshot.state)
  /\ goTo("draining")
  /\ UNCHANGED <<vars0, history>>

(* A signal was seen; the request is sent once.                              *)
CliCancel ==
  /\ owner = "polling"
  /\ ~isTerminal(snapshot.state)
  /\ ~cancellationSent
  /\ RequestCancel
  /\ cancellationSent' = TRUE
  /\ UNCHANGED <<owner, held, gui>>

-----------------------------------------------------------------------------
(* The window: LiveTransmitModel.  "shown" is its currentState, told apart    *)
(* as isActive(), isHazardous() and isTerminal() do.                         *)

(* snapshot() replaces the session by the installed coordinator's.           *)
shownSession == IF coordinator # 0 /\ isRunning THEN coordinator ELSE snapshot.session

shownState ==
  IF shownSession # 0
  THEN LET session == sessions[shownSession] IN
       CASE session.hasHazard -> "hazard"
         [] ~session.hasHazard /\ session.state \in {"checking", "sending"} -> "active"
         [] ~session.hasHazard /\ session.state \in {"cancelled", "faulted"} -> "terminal"
         [] OTHER -> "inactive"
  ELSE CASE snapshot.state \in {"checkingPtt", "stopping"} -> "active"
         [] snapshot.state = "hazardous" -> "hazard"
         [] snapshot.state \in {"completed", "cancelled", "faulted"} -> "terminal"
         [] OTHER -> "inactive"

isActive == gui.shown = "active"
isReady == gui.hasConfiguration /\ gui.shown \notin {"active", "hazard"}

setError ==
  /\ owner' = "open"
  /\ held' = 0
  /\ gui' = [gui EXCEPT !.hasConfiguration = FALSE]
  /\ UNCHANGED <<vars0, cancellationSent, history>>

GuiConfigure ==
  /\ owner = "open"
  /\ \/ /\ \E rig \in Rigs : Configure(rig)
        /\ gui' = [gui EXCEPT !.hasConfiguration = TRUE]
        /\ UNCHANGED <<owner, held, cancellationSent>>
     \/ ~isConfigurable /\ setError

GuiConfirm ==
  /\ owner = "open"
  /\ isReady
  /\ worker.session < MaxSessions
  /\ \/ /\ Confirm
        /\ owner' = "confirmed"
        /\ held' = nextNonce
        /\ UNCHANGED <<cancellationSent, gui>>
     \/ ~isConfirmable /\ setError

GuiStart ==
  /\ owner = "confirmed"
  /\ \/ /\ Start(held)
        /\ owner' = "open"
        /\ held' = 0
        /\ gui' = [gui EXCEPT !.hasConfiguration = FALSE, !.shown = "active"]
        /\ UNCHANGED cancellationSent
     \/ ~isStartable(held) /\ setError

GuiStop == owner = "open" /\ isActive /\ RequestCancel /\ UNCHANGED ownerVars

GuiCheck ==
  /\ owner = "open"
  /\ ~isActive
  /\ \E rig \in Rigs : CallCheck(rig)
  /\ UNCHANGED ownerVars

GuiRetry == owner = "open" /\ gui.shown = "hazard" /\ CallRetry /\ UNCHANGED ownerVars

(* requestWindowClose(): let it close, or stop first.                        *)
GuiClose ==
  /\ owner = "open"
  /\ IF gui.shown \in {"active", "hazard"}
     THEN /\ RequestCancel
          /\ gui' = [gui EXCEPT !.closePending = TRUE]
          /\ UNCHANGED <<owner, held, cancellationSent>>
     ELSE goTo("quitting") /\ UNCHANGED <<vars0, history>>

(* pollSnapshot(), ten times a second; a terminal state lets a waiting        *)
(* window close (safeToClose).                                              *)
GuiPoll ==
  /\ owner = "open"
  /\ isNew \/ isActive
  /\ isNew' = FALSE
  /\ LET mayClose == gui.closePending /\ shownState \in {"terminal", "hazard"} IN
       /\ gui' = [gui EXCEPT !.shown = shownState, !.closePending = @ /\ ~mayClose]
       /\ owner' = IF mayClose THEN "quitting" ELSE owner
  /\ UNCHANGED <<snapshot, configuration, confirmation, nextNonce, isRunning, coordinator,
                 supervisor, worker, sessions, keyed, checking, retrying,
                 held, cancellationSent, history>>

(* ~LiveTransmitModel(): a cancel, then the pool, then shutdown().           *)
GuiDestroy == owner = "quitting" /\ RequestCancel /\ goTo("draining")

-----------------------------------------------------------------------------
(* shutdown(), for every owner.                                             *)

EnterShutdown ==
  /\ owner = "draining"
  /\ checking = NoRig /\ retrying.at = "idle"
  /\ RequestCancel
  /\ goTo("shutting")

ShutdownCoordinator ==
  owner = "shutting" /\ shutdownCoordinator /\ goTo("joining") /\ UNCHANGED history

JoinWorker == owner = "joining" /\ joinWorker /\ goTo("closed") /\ UNCHANGED history

Leaving == GuiDestroy \/ EnterShutdown \/ ShutdownCoordinator \/ JoinWorker

Background == (WorkerStep \/ reportCheck \/ RetryStep) /\ UNCHANGED <<ownerVars, history>>

Next ==
  \/ FreeCall \/ FreeShutdown
  \/ CliConfigure \/ CliConfirm \/ CliStart \/ CliLeaveLoop \/ CliCancel
  \/ GuiConfigure \/ GuiConfirm \/ GuiStart \/ GuiStop \/ GuiCheck \/ GuiRetry
  \/ GuiClose \/ GuiPoll
  \/ Leaving
  \/ Background

Spec == Init /\ [][Next]_vars
=============================================================================
