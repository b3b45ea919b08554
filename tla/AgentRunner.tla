---------------------------- MODULE AgentRunner -----------------------------
(***************************************************************************)
(* The tunnels of one agent process: the commands `tuzy http` and `tuzy    *)
(* start`, which settle every tunnel's name, runTunnels (internal/cli),    *)
(* and for each tunnel the reconnect loop Client.Run (tunnel/client.go).   *)
(* A client dials, shakes hands, serves a session, and then waits, dials   *)
(* on at once, or returns.  The session itself is AgentSession's subject;  *)
(* what the edge decides at a connect is TunnelConnect's, here it may give *)
(* any answer that it gives for the client's name.  Delays are not         *)
(* measured: it only counts whether there is one.                          *)
(***************************************************************************)
EXTENDS Naturals

CONSTANTS
  Clients,       \* the tunnels of the process
  MaxRenameHops, \* maxRenameHops
  MAX_ATTEMPT,   \* bound: attempts are told apart up to this number
  NAME_TRIES     \* how often firstName asks for a name

ASSUME RunnerAssumption ==
  MaxRenameHops \in Nat /\ MAX_ATTEMPT \in Nat /\ NAME_TRIES \in Nat \ {0}

VARIABLES
  pc,      \* before Start: its name's state; then where the client's Run is
  tries,   \* names that firstName's user has chosen in vain
  force,   \* opts.Force
  hops,    \* renameHops
  attempt, \* attempt, from which backoff.delay takes its ceiling
  rival,   \* another process holds the client's name at the edge
  ever,    \* the client has been online
  dials,   \* connects since the client last waited or was online
  cancel,  \* context.Cause of the process: "no", "user" or "failure"
  result   \* what runTunnels returned: "none" yet, "nil" or "failure"

runnerVars == <<pc, tries, force, hops, attempt, rival, ever, dials, cancel, result>>

(* The name the command is given is the account's, nobody's, or on hold or *)
(* renamed; "none": it is given no name and the account has none.          *)
Unresolved == {"owned", "free", "held", "none"}
Idle == Unresolved \cup {"resolved", "stopped", "over"}
Running == {"top", "wait", "dial", "shake", "online", "failed"}

RunnerTypeOK ==
  /\ pc \in [Clients -> Idle \cup Running] /\ tries \in 0 .. NAME_TRIES
  /\ force \in [Clients -> BOOLEAN] /\ rival \in [Clients -> BOOLEAN]
  /\ ever \in [Clients -> BOOLEAN]
  /\ hops \in [Clients -> 0 .. MaxRenameHops + 1]
  /\ attempt \in [Clients -> 0 .. MAX_ATTEMPT]
  /\ dials \in [Clients -> 0 .. MaxRenameHops + 1]
  /\ cancel \in {"no", "user", "failure"} /\ result \in {"none", "nil", "failure"}

(* Some of the tunnels of a project file, or one without a name: the       *)
(* others are over.                                                        *)
Selections ==
  {p \in [Clients -> Unresolved \cup {"over"}] :
     /\ \E c \in Clients : p[c] # "over"
     /\ \A c \in Clients : p[c] = "none" => \A d \in Clients \ {c} : p[d] = "over"}

RunnerInit ==
  /\ pc \in Selections /\ tries = 0
  /\ force = [c \in Clients |-> TRUE]
  /\ hops = [c \in Clients |-> 0] /\ attempt = [c \in Clients |-> 0]
  /\ rival = [c \in Clients |-> FALSE] /\ ever = [c \in Clients |-> FALSE]
  /\ dials = [c \in Clients |-> 0]
  /\ cancel = "no" /\ result = "none"

Goto(c, where) == pc' = [pc EXCEPT ![c] = where]
Cancelled == cancel # "no"

---------------------------------------------------------------------------
(* The command, before anything connects                                   *)

Unstarted ==
  /\ result = "none"
  /\ \A c \in Clients : pc[c] \in Unresolved \cup {"resolved", "over"}
  /\ \E c \in Clients : pc[c] # "over"

notStarting == <<force, hops, attempt, rival, ever, dials, cancel>>

(* No token, a bad option or project file, the account's names not listed, *)
(* or an option that NewClient refuses: no tunnel starts.                  *)
StartFails ==
  /\ Unstarted /\ result' = "failure"
  /\ UNCHANGED <<pc, tries, notStarting>>

(* An owned name is taken as it is, a free one is claimed.                 *)
Resolve(c) ==
  /\ Unstarted /\ pc[c] \in {"owned", "free", "held"}
  /\ \/ pc[c] # "held" /\ Goto(c, "resolved") /\ UNCHANGED result
     \/ pc[c] # "owned" /\ result' = "failure" /\ UNCHANGED pc
  /\ UNCHANGED <<tries, notStarting>>

(* firstName asks for a name, again when the edge refuses it; with nobody  *)
(* to ask the edge generates one.                                          *)
FirstName(c) ==
  /\ Unstarted /\ pc[c] = "none"
  /\ \/ Goto(c, "resolved") /\ tries' = 0 /\ UNCHANGED result
     \/ /\ tries' = tries + 1 /\ UNCHANGED pc
        /\ result' = IF tries' = NAME_TRIES THEN "failure" ELSE result
  /\ UNCHANGED notStarting

---------------------------------------------------------------------------
(* runTunnels                                                              *)

(* Every client is built before the first one runs; --force is the user's. *)
Start ==
  /\ Unstarted /\ \A c \in Clients : pc[c] \in {"resolved", "over"}
  /\ pc' = [c \in Clients |-> IF pc[c] = "over" THEN "over" ELSE "top"]
  /\ \E f \in BOOLEAN : force' = [c \in Clients |-> f]
  /\ UNCHANGED <<tries, hops, attempt, rival, ever, dials, cancel, result>>

(* A Run that returned an error stops every tunnel; the first cause stays. *)
ReportFailure(c) ==
  /\ pc[c] = "failed" /\ Goto(c, "over")
  /\ cancel' = IF Cancelled THEN cancel ELSE "failure"
  /\ UNCHANGED <<tries, force, hops, attempt, rival, ever, dials, result>>

ReturnNil ==
  /\ result = "none" /\ \A c \in Clients : pc[c] \in {"stopped", "over"}
  /\ result' = "nil"
  /\ UNCHANGED <<pc, tries, force, hops, attempt, rival, ever, dials, cancel>>

Return ==
  /\ result = "none" /\ \A c \in Clients : pc[c] \in {"stopped", "over"}
  /\ result' = IF cancel = "failure" THEN "failure" ELSE "nil"
  /\ UNCHANGED <<pc, tries, force, hops, attempt, rival, ever, dials, cancel>>

UserInterrupts ==
  /\ ~Cancelled /\ cancel' = "user"
  /\ UNCHANGED <<pc, tries, force, hops, attempt, rival, ever, dials, result>>

(* Another process takes the name over, or connects while nobody has it.   *)
RivalTakes(c) ==
  /\ pc[c] \in Running /\ ~rival[c]
  /\ rival' = [rival EXCEPT ![c] = TRUE]
  /\ UNCHANGED <<pc, tries, force, hops, attempt, ever, dials, cancel, result>>

---------------------------------------------------------------------------
(* Client.Run                                                              *)

(* The top of the loop, when there is no delay or it has passed.           *)
Dial(c) ==
  /\ pc[c] = "top"
  /\ IF Cancelled
     THEN Goto(c, "stopped") /\ UNCHANGED dials
     ELSE Goto(c, "dial") /\ dials' = [dials EXCEPT ![c] = @ + 1]
  /\ UNCHANGED <<tries, force, hops, attempt, rival, ever, cancel, result>>

WaitOver(c) ==
  /\ pc[c] = "wait"
  /\ \/ Goto(c, "top")
     \/ Cancelled /\ Goto(c, "stopped")
  /\ dials' = [dials EXCEPT ![c] = 0]
  /\ UNCHANGED <<tries, force, hops, attempt, rival, ever, cancel, result>>

(* follow: Run goes on at once under the new name, whoever holds that.     *)
Follow(c) ==
  /\ Goto(c, "top")
  /\ \E held \in BOOLEAN : rival' = [rival EXCEPT ![c] = held]

GiveUp(c) == Goto(c, "failed") /\ UNCHANGED rival

(* backoff.delay(attempt), and more when the edge asked for it.            *)
BackOff(c) ==
  /\ Goto(c, "wait")
  /\ attempt' = [attempt EXCEPT ![c] = IF @ < MAX_ATTEMPT THEN @ + 1 ELSE @]

FollowAlways(c) ==
  /\ pc[c] = "dial"
  /\ hops' = [hops EXCEPT ![c] = @ + 1] /\ Follow(c)
  /\ UNCHANGED <<tries, force, attempt, ever, dials, cancel, result>>

(* A 410 with the new name.                                                *)
DialRenamed(c) ==
  /\ pc[c] = "dial"
  /\ hops' = [hops EXCEPT ![c] = @ + 1]
  /\ IF hops[c] + 1 > MaxRenameHops THEN GiveUp(c) ELSE Follow(c)
  /\ UNCHANGED <<tries, force, attempt, ever, dials, cancel, result>>

(* statusError: the statuses that end Run, the 409 among them.             *)
DialRefused(c) ==
  /\ pc[c] = "dial" /\ GiveUp(c)
  /\ UNCHANGED <<tries, force, hops, attempt, ever, dials, cancel, result>>

(* Network error, 429, 5xx; a cancelled context ends the dial like this.   *)
DialRetry(c) ==
  /\ pc[c] = "dial"
  /\ IF Cancelled THEN Goto(c, "stopped") /\ UNCHANGED attempt ELSE BackOff(c)
  /\ UNCHANGED <<tries, force, hops, rival, ever, dials, cancel, result>>

(* The edge accepts the socket: the name is free, or --force evicts.       *)
DialUpgraded(c) ==
  /\ pc[c] = "dial" /\ (rival[c] => force[c])
  /\ Goto(c, "shake") /\ rival' = [rival EXCEPT ![c] = FALSE]
  /\ UNCHANGED <<tries, force, hops, attempt, ever, dials, cancel, result>>

OnlineForced(c) ==
  /\ pc[c] = "shake" /\ Goto(c, "online")
  /\ hops' = [hops EXCEPT ![c] = 0] /\ ever' = [ever EXCEPT ![c] = TRUE]
  /\ dials' = [dials EXCEPT ![c] = 0]
  /\ UNCHANGED <<tries, force, attempt, rival, cancel, result>>

(* READY: --force has done its work.                                       *)
Online(c) ==
  /\ pc[c] = "shake" /\ Goto(c, "online")
  /\ hops' = [hops EXCEPT ![c] = 0] /\ force' = [force EXCEPT ![c] = FALSE]
  /\ ever' = [ever EXCEPT ![c] = TRUE] /\ dials' = [dials EXCEPT ![c] = 0]
  /\ UNCHANGED <<tries, attempt, rival, cancel, result>>

(* GOAWAY with a reason that must not reconnect.                           *)
ShakeRefused(c) ==
  /\ pc[c] = "shake" /\ GiveUp(c)
  /\ UNCHANGED <<tries, force, hops, attempt, ever, dials, cancel, result>>

(* A lost or timed-out handshake, another GOAWAY, a frame before READY;    *)
(* after "no HELLO" the backoff does not grow.                             *)
ShakeRetry(c) ==
  /\ pc[c] = "shake"
  /\ \/ Cancelled /\ Goto(c, "stopped") /\ UNCHANGED attempt
     \/ ~Cancelled /\ BackOff(c)
     \/ ~Cancelled /\ Goto(c, "wait") /\ UNCHANGED attempt
  /\ UNCHANGED <<tries, force, hops, rival, ever, dials, cancel, result>>

(* minHealthyUptime: only a session that lasted resets the backoff.        *)
Healthy(c) == \E lasted \in BOOLEAN :
  attempt' = [attempt EXCEPT ![c] = IF lasted THEN 0 ELSE @]

SessionStops(c) ==
  /\ pc[c] = "online" /\ Cancelled /\ Goto(c, "stopped")
  /\ UNCHANGED <<tries, force, hops, attempt, rival, ever, dials, cancel, result>>

SessionTerminal(c) ==
  /\ pc[c] = "online" /\ ~Cancelled /\ GiveUp(c) /\ Healthy(c)
  /\ UNCHANGED <<tries, force, hops, ever, dials, cancel, result>>

SessionRenamed(c) ==
  /\ pc[c] = "online" /\ ~Cancelled /\ Follow(c) /\ Healthy(c)
  /\ UNCHANGED <<tries, force, hops, ever, dials, cancel, result>>

(* The delay comes from the attempt so far, or is a restart's jitter.      *)
SessionLost(c) ==
  /\ pc[c] = "online" /\ ~Cancelled /\ Goto(c, "wait")
  /\ \E before \in {0, attempt[c]} :
       attempt' = [attempt EXCEPT ![c] = IF before < MAX_ATTEMPT THEN before + 1 ELSE before]
  /\ UNCHANGED <<tries, force, hops, rival, ever, dials, cancel, result>>

---------------------------------------------------------------------------
RunnerNext ==
  \/ Start \/ StartFails \/ Return \/ UserInterrupts
  \/ \E c \in Clients :
       \/ Resolve(c) \/ FirstName(c)
       \/ ReportFailure(c) \/ RivalTakes(c) \/ Dial(c) \/ WaitOver(c)
       \/ DialRenamed(c) \/ DialRefused(c) \/ DialRetry(c) \/ DialUpgraded(c)
       \/ Online(c) \/ ShakeRefused(c) \/ ShakeRetry(c)
       \/ SessionStops(c) \/ SessionTerminal(c) \/ SessionRenamed(c) \/ SessionLost(c)

(* Timers fire, connects time out, goroutines run; a session whose context *)
(* is cancelled ends (AgentSession's SessionEnds).                         *)
ClientGoesOn(c) ==
  \/ ReportFailure(c) \/ Dial(c) \/ WaitOver(c) \/ DialRetry(c) \/ ShakeRetry(c)
  \/ SessionStops(c)

RunnerFairness ==
  /\ WF_runnerVars(Return)
  /\ \A c \in Clients : WF_runnerVars(ClientGoesOn(c))

RunnerSpec == RunnerInit /\ [][RunnerNext]_runnerVars /\ RunnerFairness

---------------------------------------------------------------------------
(* A client neither evicts nor hammers: a connect that has been online     *)
(* before never takes the name from another process, and renames lead it   *)
(* to at most MaxRenameHops connects more before it waits or gives up.     *)
PoliteDials ==
  [][\A c \in Clients :
       /\ dials'[c] <= MaxRenameHops + 1
       /\ rival[c] /\ pc[c] = "dial" /\ pc'[c] = "shake" => ~ever[c]]_runnerVars

(* One tunnel that fails for good stops all the others, and runTunnels     *)
(* returns that failure, not the clean end the others report.              *)
OneFailsAllStop == cancel = "failure" ~> result = "failure"
=============================================================================
