---------------------------- MODULE TunnelConnect ---------------------------
(***************************************************************************)
(* Who may serve a name: agents connecting to one tunnel name while the    *)
(* control plane removes, re-creates, suspends and reinstates the name,    *)
(* suspends or deletes its owner and revokes tokens.                       *)
(*                                                                         *)
(*   Worker  src/edge/src/api/connect.ts, auth-middleware.ts               *)
(*   object  src/edge/src/tunnel-object.ts (connectAgent, adoptGen,        *)
(*           acceptAgent, currentAgent, isDead, dropAgent, control RPCs)   *)
(*   D1      src/edge/src/lib/name-repo.ts, lib/moderation.ts,             *)
(*           api/token-routes.ts, api/account-routes.ts                    *)
(*   outbox  src/edge/src/lib/outbox.ts, scheduled.ts                      *)
(*                                                                         *)
(* The Worker, the Durable Object of the name and D1 only meet in calls    *)
(* that other events interleave with: a D1 batch is one step, and so is a  *)
(* handler of the object between two awaits.  A connect attempt yields at  *)
(* most one socket, so the socket is named after the attempt.  controlSeq  *)
(* is compared with a snapshot only: `stale` holds the attempts whose      *)
(* snapshot is out of date.  outbox rows are pushed in any order, at least *)
(* once; a row stands for all equal ones, which are pushed as often.       *)
(***************************************************************************)
EXTENDS Naturals, Functions

CONSTANTS
    Connects,       \* connect attempts
    Users,          \* accounts; each uses one token
    Instances,      \* agent processes (instance_id)
    MAX_GEN,        \* bound: incarnations of the name
    MAX_OPS         \* bound: changes made by the control plane

ASSUME BoundsAssumption == MAX_GEN \in Nat /\ MAX_OPS \in Nat

VARIABLES
    \* D1
    row,            \* reservations: NoRow or [gen, owner, status]
    lastGen,        \* generations handed out so far
    userStatus,     \* users.status
    revoked,        \* users whose token is revoked
    sessions,       \* tunnel_sessions: users whose token has connected here
    outbox,         \* do_outbox rows not yet done
    reconciling,    \* daily cron: a generation read as suspended, 0 for none
    ops,            \* changes made so far
    \* The Durable Object
    gen,            \* TunnelObject.gen, 0 for undefined
    suspended,      \* TunnelObject.suspended
    epoch,          \* TunnelObject.epoch
    stale,          \* connects that awaited D1 across a bump of controlSeq
    missed,         \* history: generations whose control RPC it answered with false
    \* Connect attempts and their sockets
    phase,          \* where the attempt is
    user, instance, \* who connects
    answer,         \* what connectAuthz told the object: a generation, 0 for no
    att             \* AgentAttachment of every attempt whose socket is OPEN at the
                    \* edge: [epoch, gen, hello, draining]

d1Vars == <<row, lastGen, userStatus, revoked, sessions, outbox, reconciling, ops>>
objVars == <<gen, suspended, epoch, stale, missed>>
agentVars == <<phase, user, instance, answer, att>>
vars == <<d1Vars, objVars, agentVars>>

Gens == 1 .. MAX_GEN
NoRow == [gen |-> 0]
Rows == [gen : Gens, owner : Users, status : {"active", "suspended"}]
Messages == [action : {"goaway"}, gen : Gens]
            \cup [action : {"setSuspended"}, gen : Gens, on : BOOLEAN]
            \cup [action : {"revokeToken", "revokeUser"}, user : Users]
Attachments == [epoch : Nat, gen : Nat, hello : BOOLEAN, draining : BOOLEAN]

\* idle, sent (the Worker forwarded it), reading (the object awaits D1), read,
\* refused, accepted (recordSession is due), unrecorded (its INSERT found the
\* token revoked), settled, lost (recordSession failed).
Phases == {"idle", "sent", "reading", "read", "refused", "accepted",
           "unrecorded", "settled", "lost"}

Open == DOMAIN att

TypeOK ==
    /\ row \in Rows \cup {NoRow}
    /\ lastGen \in 0 .. MAX_GEN
    /\ userStatus \in [Users -> {"active", "suspended", "deleted"}]
    /\ revoked \subseteq Users
    /\ sessions \subseteq Users
    /\ outbox \subseteq Messages
    /\ reconciling \in 0 .. MAX_GEN
    /\ ops \in Nat
    /\ gen \in 0 .. MAX_GEN
    /\ suspended \in BOOLEAN
    /\ epoch \in Nat
    /\ stale \subseteq Connects
    /\ missed \subseteq Gens
    /\ phase \in [Connects -> Phases]
    /\ user \in [Connects -> Users]
    /\ instance \in [Connects -> Instances]
    /\ answer \in [Connects -> 0 .. MAX_GEN]
    /\ Open \subseteq Connects
    /\ att \in [Open -> Attachments]

Init ==
    /\ row = NoRow
    /\ lastGen = 0
    /\ userStatus = [u \in Users |-> "active"]
    /\ revoked = {}
    /\ sessions = {}
    /\ outbox = {}
    /\ reconciling = 0
    /\ ops = 0
    /\ gen = 0
    /\ suspended = FALSE
    /\ epoch = 0
    /\ stale = {}
    /\ missed = {}
    /\ phase = [c \in Connects |-> "idle"]
    /\ user \in [Connects -> Users]
    /\ instance \in [Connects -> Instances]
    /\ answer = [c \in Connects |-> 0]
    /\ att = <<>>
-----------------------------------------------------------------------------
(* D1: the control plane.  Every change and its outbox rows are one batch. *)

HasRow == row # NoRow
Change == ops < MAX_OPS /\ ops' = ops + 1

\* reserve, reserveForUser, or a rename to this name: a new generation.
Reserve(u) ==
    /\ Change
    /\ ~HasRow /\ lastGen < MAX_GEN
    /\ userStatus[u] = "active"
    /\ lastGen' = lastGen + 1
    /\ row' = [gen |-> lastGen + 1, owner |-> u, status |-> "active"]
    /\ UNCHANGED <<userStatus, revoked, sessions, outbox, reconciling, objVars, agentVars>>

Vacate ==
    /\ row' = NoRow
    /\ outbox' = outbox \cup {[action |-> "goaway", gen |-> row.gen]}
    /\ UNCHANGED <<lastGen, userStatus, revoked, sessions, reconciling, objVars, agentVars>>

\* The owner removes the name or renames it away.
Remove ==
    /\ Change
    /\ HasRow
    /\ row.status = "active"
    /\ userStatus[row.owner] = "active"
    /\ Vacate

\* blockName, whatever the status.
Block == Change /\ HasRow /\ Vacate

\* setNameSuspended.
SetNameSuspended(on) ==
    /\ Change
    /\ HasRow
    /\ row.status = IF on THEN "active" ELSE "suspended"
    /\ row' = [row EXCEPT !.status = IF on THEN "suspended" ELSE "active"]
    /\ outbox' = outbox \cup {[action |-> "setSuspended", gen |-> row.gen, on |-> on]}
    /\ UNCHANGED <<lastGen, userStatus, revoked, sessions, reconciling, objVars, agentVars>>

Owns(u) == HasRow /\ row.owner = u

\* setUserSuspended: suspension fans revokeUser out to the account's names.
SuspendUser(u) ==
    /\ Change
    /\ userStatus[u] = "active"
    /\ userStatus' = [userStatus EXCEPT ![u] = "suspended"]
    /\ outbox' = outbox \cup {m \in [action : {"revokeUser"}, user : {u}] : Owns(u)}
    /\ UNCHANGED <<row, lastGen, revoked, sessions, reconciling, objVars, agentVars>>

ReinstateUser(u) ==
    /\ Change
    /\ userStatus[u] = "suspended"
    /\ userStatus' = [userStatus EXCEPT ![u] = "active"]
    /\ UNCHANGED <<row, lastGen, revoked, sessions, outbox, reconciling, objVars, agentVars>>

\* delete/confirm: tokens revoked, names freed, revokeUser to every name the
\* account owns or has connected to.
DeleteUser(u) ==
    /\ Change
    /\ userStatus[u] = "active"
    /\ userStatus' = [userStatus EXCEPT ![u] = "deleted"]
    /\ revoked' = revoked \cup {u}
    /\ outbox' = outbox \cup {m \in [action : {"revokeUser"}, user : {u}] :
                                Owns(u) \/ u \in sessions}
    /\ sessions' = sessions \ {u}
    /\ row' = IF Owns(u) THEN NoRow ELSE row
    /\ UNCHANGED <<lastGen, reconciling, objVars, agentVars>>

\* DELETE /tokens/:id: notify every object the token has connected to.
RevokeToken(u) ==
    /\ Change
    /\ userStatus[u] = "active"
    /\ u \notin revoked
    /\ revoked' = revoked \cup {u}
    /\ outbox' = outbox \cup {m \in [action : {"revokeToken"}, user : {u}] : u \in sessions}
    /\ UNCHANGED <<row, lastGen, userStatus, sessions, reconciling, objVars, agentVars>>

\* dailyCron's reconciliation selects the suspended names, asks KV for their
\* markers, then inserts the rows in a second batch.
ReconcileRead ==
    /\ Change
    /\ HasRow
    /\ row.status = "suspended"
    /\ reconciling = 0
    /\ reconciling' = row.gen
    /\ UNCHANGED <<row, lastGen, userStatus, revoked, sessions, outbox, objVars, agentVars>>

\* Mutant: the rows are inserted for whatever was selected.
ReconcileInsertAlways ==
    /\ reconciling' = 0
    /\ outbox' = outbox \cup
        {[action |-> "setSuspended", gen |-> reconciling, on |-> TRUE]}
    /\ UNCHANGED <<row, lastGen, userStatus, revoked, sessions, ops, objVars, agentVars>>

ReconcileInsert ==
    /\ reconciling # 0
    /\ reconciling' = 0
    /\ outbox' = outbox \cup
        {[action |-> "setSuspended", gen |-> reconciling, on |-> TRUE]}
    /\ UNCHANGED <<row, lastGen, userStatus, revoked, sessions, ops, objVars, agentVars>>
-----------------------------------------------------------------------------
(* The object: control RPCs.                                               *)

GenMatches(g) == gen = 0 \/ g = gen

\* Mutant: a control RPC forgets controlSeq.
BumpNothing == UNCHANGED stale

\* controlSeq += 1: attempts that await D1 will have to retry.
Bump == stale' = stale \cup {c \in Connects : phase[c] \in {"reading", "read"}}

\* revokeToken and revokeUser drop the sockets of one account.
DropUser(u) == att' = Restrict(att, {c \in Open : user[c] # u})

\* A stale generation: the RPC returns false and changes nothing.
Ignore(g) == missed' = missed \cup {g} /\ UNCHANGED <<suspended, att, stale>>

\* goaway drops every agent.
Goaway == att' = <<>> /\ Bump /\ UNCHANGED <<suspended, missed>>

SetSuspended(on) ==
    /\ suspended' = on
    /\ att' = IF on THEN <<>> ELSE att
    /\ Bump
    /\ UNCHANGED missed

Apply(m) ==
    \/ /\ m.action = "goaway"
       /\ IF GenMatches(m.gen) THEN Goaway ELSE Ignore(m.gen)
    \/ /\ m.action = "setSuspended"
       /\ IF GenMatches(m.gen) THEN SetSuspended(m.on) ELSE Ignore(m.gen)
    \/ /\ m.action = "revokeToken"
       /\ DropUser(m.user) /\ UNCHANGED <<suspended, stale, missed>>
    \/ /\ m.action = "revokeUser"
       /\ DropUser(m.user) /\ Bump /\ UNCHANGED <<suspended, missed>>

\* pushOutbox reaches the object.  Unless the answer comes back in time and
\* the row is marked done, it will be pushed again.
Push(m, acknowledged) ==
    /\ m \in outbox
    /\ Apply(m)
    /\ outbox' = IF acknowledged THEN outbox \ {m} ELSE outbox
    /\ UNCHANGED <<row, lastGen, userStatus, revoked, sessions, reconciling, ops, gen,
                   epoch, phase, user, instance, answer>>
-----------------------------------------------------------------------------
(* Connecting.                                                             *)

\* handleConnect: the token and its user are checked here and nowhere else.
\* The Worker's own connectAuthz can only refuse, and the object asks again.
Connect(c) ==
    /\ phase[c] = "idle"
    /\ user[c] \notin revoked
    /\ userStatus[user[c]] = "active"
    /\ phase' = [phase EXCEPT ![c] = "sent"]
    /\ UNCHANGED <<d1Vars, objVars, user, instance, answer, att>>

\* connectAgent takes its snapshot of controlSeq and asks D1.
Arrive(c) ==
    /\ phase[c] = "sent"
    /\ phase' = [phase EXCEPT ![c] = "reading"]
    /\ UNCHANGED <<d1Vars, objVars, user, instance, answer, att>>

\* connectAuthz.
Authorized(u) == Owns(u) /\ row.status = "active" /\ userStatus[u] = "active"

ReadD1(c) ==
    /\ phase[c] = "reading"
    /\ phase' = [phase EXCEPT ![c] = "read"]
    /\ answer' = [answer EXCEPT ![c] = IF Authorized(user[c]) THEN row.gen ELSE 0]
    /\ UNCHANGED <<d1Vars, objVars, user, instance, att>>

\* currentAgent: the newest open socket, whatever its state.
Current(S) == {c \in S : \A d \in S : att[d].epoch <= att[c].epoch}

\* Mutants: a takeover does not close the socket it replaces; the sockets of
\* the former incarnation are forgotten.
KeepAll(S, c, force, dead) == S
SurvivorsAll(g) == Open

\* adoptGen drops the sockets admitted under another generation.
Survivors(g) == IF g = gen THEN Open ELSE {d \in Open : att[d].gen = g}

\* The replace rules: rule 3 keeps a draining socket, rules 1, 2 and 4 drop the
\* current one.  `dead` is isDead's verdict on it, a matter of clocks and pongs.
Keep(S, c, force, dead) ==
    S \ {d \in Current(S) :
            instance[d] = instance[c] \/ dead \/ (~att[d].draining /\ force)}

\* Rule 5: a live agent of another process keeps the name.
InUse(S, c, force, dead) ==
    \E d \in Current(S) :
        instance[d] # instance[c] /\ ~dead /\ ~att[d].draining /\ ~force

Refuse(c) ==
    /\ phase' = [phase EXCEPT ![c] = "refused"]
    /\ UNCHANGED epoch

\* acceptAgent, past the checks: the next epoch's socket.
Accept(c, kept) ==
    /\ phase' = [phase EXCEPT ![c] = "accepted"]
    /\ epoch' = epoch + 1
    /\ att' = [d \in kept \cup {c} |->
                IF d = c THEN [epoch |-> epoch + 1, gen |-> answer[c],
                               hello |-> FALSE, draining |-> FALSE]
                ELSE att[d]]

\* The rest of connectAgent, in one go: refused or overtaken attempts change
\* nothing; a new generation is adopted, which drops the sockets of the old
\* one and lifts a suspension; then acceptAgent.
Finish(c, force, dead) ==
    /\ phase[c] = "read"
    /\ IF answer[c] = 0 \/ c \in stale
       THEN Refuse(c) /\ UNCHANGED <<gen, suspended, att>>
       ELSE LET S == Survivors(answer[c])
            IN  /\ gen' = answer[c]
                /\ suspended' = (suspended /\ answer[c] = gen)
                /\ IF suspended' \/ InUse(S, c, force, dead)
                   THEN Refuse(c) /\ att' = Restrict(att, S)
                   ELSE Accept(c, Keep(S, c, force, dead))
    /\ stale' = stale \ {c}
    /\ answer' = [answer EXCEPT ![c] = 0]
    /\ UNCHANGED <<d1Vars, missed, user, instance>>

\* Mutant: the session is recorded without another look at the token.
RecordUnchecked(c) ==
    /\ phase[c] = "accepted"
    /\ phase' = [phase EXCEPT ![c] = "settled"]
    /\ sessions' = sessions \cup {user[c]}
    /\ UNCHANGED <<row, lastGen, userStatus, revoked, outbox, reconciling, ops, objVars,
                   user, instance, answer, att>>

\* recordSession: INSERT unless the token has been revoked meanwhile.
Record(c) ==
    /\ phase[c] = "accepted"
    /\ IF user[c] \in revoked
       THEN /\ phase' = [phase EXCEPT ![c] = "unrecorded"]
            /\ UNCHANGED sessions
       ELSE /\ phase' = [phase EXCEPT ![c] = "settled"]
            /\ sessions' = sessions \cup {user[c]}
    /\ UNCHANGED <<row, lastGen, userStatus, revoked, outbox, reconciling, ops, objVars,
                   user, instance, answer, att>>

\* The revocation won: the fresh session is revoked.
RevokeFresh(c) ==
    /\ phase[c] = "unrecorded"
    /\ phase' = [phase EXCEPT ![c] = "settled"]
    /\ DropUser(user[c])
    /\ UNCHANGED <<d1Vars, objVars, user, instance, answer>>

\* D1, the object or the Worker fails while recordSession runs: it is logged.
RecordFails(c) ==
    /\ phase[c] \in {"accepted", "unrecorded"}
    /\ phase' = [phase EXCEPT ![c] = "lost"]
    /\ UNCHANGED <<d1Vars, objVars, user, instance, answer, att>>
-----------------------------------------------------------------------------
(* Sockets.                                                                *)

Hello(c) ==
    /\ c \in Open
    /\ ~att[c].hello
    /\ att' = [att EXCEPT ![c].hello = TRUE]
    /\ UNCHANGED <<d1Vars, objVars, phase, user, instance, answer>>

\* DRAIN.
Drain(c) ==
    /\ c \in Open
    /\ att[c].hello /\ ~att[c].draining
    /\ att' = [att EXCEPT ![c].draining = TRUE]
    /\ UNCHANGED <<d1Vars, objVars, phase, user, instance, answer>>

\* The agent closes, breaks the protocol, or the edge notices that it is gone.
SocketGone(c) ==
    /\ c \in Open
    /\ att' = Restrict(att, Open \ {c})
    /\ UNCHANGED <<d1Vars, objVars, phase, user, instance, answer>>

\* The object starts anew: a deploy, or ctx.abort 250 ms after a HELLO deadline.
\* Its sockets drop and its pending requests fail; storage stays.
Restart ==
    /\ att' = <<>>
    /\ stale' = {}
    /\ phase' = [c \in Connects |->
                    IF phase[c] \in {"reading", "read"} THEN "refused" ELSE phase[c]]
    /\ answer' = [c \in Connects |-> 0]
    /\ UNCHANGED <<d1Vars, gen, suspended, epoch, missed, user, instance>>
-----------------------------------------------------------------------------
ControlPlane ==
    \/ \E u \in Users :
        \/ Reserve(u)
        \/ SuspendUser(u)
        \/ ReinstateUser(u)
        \/ DeleteUser(u)
        \/ RevokeToken(u)
    \/ Remove
    \/ Block
    \/ \E on \in BOOLEAN : SetNameSuspended(on)
    \/ ReconcileRead
    \/ ReconcileInsert
    \/ \E m \in outbox, acknowledged \in BOOLEAN : Push(m, acknowledged)

Agents ==
    \E c \in Connects :
        \/ Connect(c)
        \/ Arrive(c)
        \/ ReadD1(c)
        \/ \E force, dead \in BOOLEAN : Finish(c, force, dead)
        \/ Record(c)
        \/ RevokeFresh(c)
        \/ RecordFails(c)
        \/ Hello(c)
        \/ Drain(c)
        \/ SocketGone(c)

Next == ControlPlane \/ Agents \/ Restart

Spec == Init /\ [][Next]_vars
-----------------------------------------------------------------------------
(* Properties.                                                             *)

\* At most one agent is not draining, and it is the newest socket: visitors
\* are never split between two processes, and only the newest epoch is served
\* (PROTOCOL.md section 3.2).
OneServing ==
    \A c, d \in Open : att[c].epoch < att[d].epoch => att[c].draining

\* Every socket was admitted under the incarnation of the name the object
\* serves now: nothing of a former owner survives (adoptGen).
SameGen == \A c \in Open : att[c].gen = gen

\* Nothing is on its way to the object.
Quiet ==
    /\ outbox = {} /\ reconciling = 0
    /\ \A c \in Connects : phase[c] \notin {"accepted", "unrecorded"}

Legitimate(c) == Authorized(user[c]) /\ row.gen = att[c].gen

\* Once the control plane's changes are delivered, an agent serves the name
\* only for its owner, under the current reservation, with name and account in
\* good standing; unless the object has ignored a push for the generation the
\* agent was admitted under.
OnlyMissedLinger ==
    Quiet => \A c \in Open : Legitimate(c) \/ att[c].gen \in missed

\* "A connect that awaited D1 across a bump retries" (tunnel-object.ts), so the
\* object's re-read closes the race with a concurrent rename, removal or suspension.
RaceClosed == Quiet => \A c \in Open : Legitimate(c)

\* A revoked token has no live session left, whichever of the connect and the
\* revocation came first, unless recording the session failed.
RevokedIsClosed ==
    Quiet => \A c \in Open : user[c] \in revoked => phase[c] = "lost"

\* Rows are retried "until they converge" (outbox.ts): then the object knows
\* whether its name is suspended.
SuspensionConverges ==
    Quiet /\ HasRow /\ gen = row.gen => suspended = (row.status = "suspended")
=============================================================================
