------------------------ MODULE TunnelConnectProofs -------------------------
(***************************************************************************)
(* Theorems about TunnelConnect, for any number of connects, accounts and  *)
(* processes: types, what the sockets of the object have in common, and    *)
(* what the control plane still owes them: the pushes in the outbox that   *)
(* will close a socket (Settled, Excuses), hence that revocation and       *)
(* moderation have taken effect once the outbox is empty.                  *)
(***************************************************************************)
EXTENDS TunnelConnect, TLAPS

\* The sockets of a step that only closes some of them, or none.
Fewer == Open' \subseteq Open /\ \A c \in Open' : att'[c] = att[c]

LEMMA RestrictOpen ==
    ASSUME TypeOK, NEW S \in SUBSET Open, att' = Restrict(att, S)
    PROVE  /\ Fewer /\ Open' = S
           /\ att' \in [Open' -> Attachments] /\ Open' \subseteq Connects
  BY DEF Restrict, Fewer, Open, TypeOK

LEMMA NoneOpen ==
    ASSUME att' = <<>>
    PROVE  Open' = {} /\ att' \in [Open' -> Attachments]
  BY DEF Open

LEMMA SameOpen ==
    ASSUME TypeOK, UNCHANGED att
    PROVE  /\ Fewer
           /\ att' \in [Open' -> Attachments] /\ Open' \subseteq Connects
  BY DEF Fewer, Open, TypeOK
-----------------------------------------------------------------------------
(* Types.                                                                  *)

LEMMA InitTypes == Init => TypeOK
  <1> SUFFICES ASSUME Init PROVE TypeOK  OBVIOUS
  <1>1. Open = {} /\ att \in [Open -> Attachments]
    BY DEF Init, Open
  <1>2. /\ row = NoRow /\ lastGen = 0 /\ revoked = {} /\ sessions = {} /\ outbox = {}
        /\ reconciling = 0 /\ ops = 0 /\ gen = 0 /\ suspended = FALSE /\ epoch = 0
        /\ stale = {} /\ missed = {}
        /\ userStatus = [u \in Users |-> "active"]
        /\ phase = [c \in Connects |-> "idle"] /\ answer = [c \in Connects |-> 0]
        /\ user \in [Connects -> Users] /\ instance \in [Connects -> Instances]
    BY DEF Init
  <1>3. /\ userStatus \in [Users -> {"active", "suspended", "deleted"}]
        /\ phase \in [Connects -> Phases]
    BY <1>2 DEF Phases
  <1>4. 0 \in 0 .. MAX_GEN /\ answer \in [Connects -> 0 .. MAX_GEN]
    BY <1>2, BoundsAssumption
  <1>5. row \in Rows \cup {NoRow} /\ outbox \subseteq Messages /\ missed \subseteq Gens
    BY <1>2
  <1>6. Open \subseteq Connects /\ att \in [Open -> Attachments]
    BY <1>1
  <1>7. QED BY <1>2, <1>3, <1>4, <1>5, <1>6 DEF TypeOK

LEMMA D1Types ==
    ASSUME TypeOK,
           \/ \E u \in Users : Reserve(u) \/ SuspendUser(u) \/ ReinstateUser(u)
                               \/ DeleteUser(u) \/ RevokeToken(u)
           \/ Remove \/ Block
           \/ \E on \in BOOLEAN : SetNameSuspended(on)
           \/ ReconcileRead \/ ReconcileInsert
    PROVE  TypeOK'
  <1> USE BoundsAssumption DEF TypeOK, Open, objVars, agentVars, Change
  <1>1. ASSUME NEW u \in Users, Reserve(u) PROVE TypeOK'
    BY <1>1 DEF Reserve, Rows, Gens
  <1>2. ASSUME NEW u \in Users, SuspendUser(u) PROVE TypeOK'
    BY <1>2 DEF SuspendUser, Messages
  <1>3. ASSUME NEW u \in Users, ReinstateUser(u) PROVE TypeOK'
    BY <1>3 DEF ReinstateUser
  <1>4. ASSUME NEW u \in Users, DeleteUser(u) PROVE TypeOK'
    BY <1>4 DEF DeleteUser, Messages
  <1>5. ASSUME NEW u \in Users, RevokeToken(u) PROVE TypeOK'
    BY <1>5 DEF RevokeToken, Messages
  <1>6. ASSUME Remove \/ Block PROVE TypeOK'
    BY <1>6 DEF Remove, Block, Vacate, HasRow, Rows, Messages
  <1>7. ASSUME NEW on \in BOOLEAN, SetNameSuspended(on) PROVE TypeOK'
    BY <1>7 DEF SetNameSuspended, HasRow, Rows, Messages
  <1>8. ASSUME ReconcileRead PROVE TypeOK'
    BY <1>8 DEF ReconcileRead, HasRow, Rows, Gens
  <1>9. ASSUME ReconcileInsert PROVE TypeOK'
    <2>1. [action |-> "setSuspended", gen |-> reconciling, on |-> TRUE] \in Messages
      BY <1>9 DEF ReconcileInsert, Messages, Gens
    <2>2. outbox' \subseteq Messages
      BY <1>9, <2>1 DEF ReconcileInsert
    <2>3. reconciling' \in 0 .. MAX_GEN
      BY <1>9 DEF ReconcileInsert
    <2>4. QED BY <1>9, <2>2, <2>3 DEF ReconcileInsert
  <1>10. QED BY <1>1, <1>2, <1>3, <1>4, <1>5, <1>6, <1>7, <1>8, <1>9

LEMMA PushTypes ==
    ASSUME TypeOK, NEW m \in outbox, NEW acknowledged \in BOOLEAN, Push(m, acknowledged)
    PROVE  TypeOK'
  <1>1. m \in Messages  BY DEF TypeOK
  <1>2. /\ suspended' \in BOOLEAN /\ stale' \subseteq Connects /\ missed' \subseteq Gens
        /\ Open' \subseteq Connects /\ att' \in [Open' -> Attachments]
    <2>1. CASE m.action = "goaway"
      <3>1. m.gen \in Gens  BY <1>1, <2>1 DEF Messages
      <3>2. Goaway \/ Ignore(m.gen)  BY <2>1 DEF Push, Apply
      <3>3. QED BY <3>1, <3>2, NoneOpen, SameOpen DEF Goaway, Ignore, Bump, TypeOK
    <2>2. CASE m.action = "setSuspended"
      <3>1. m.gen \in Gens /\ m.on \in BOOLEAN  BY <1>1, <2>2 DEF Messages
      <3>2. SetSuspended(m.on) \/ Ignore(m.gen)  BY <2>2 DEF Push, Apply
      <3>3. QED BY <3>1, <3>2, NoneOpen, SameOpen DEF SetSuspended, Ignore, Bump, TypeOK
    <2>3. CASE m.action \in {"revokeToken", "revokeUser"}
      <3>1. DropUser(m.user) /\ UNCHANGED <<suspended, missed>>
            /\ (Bump \/ UNCHANGED stale)
        BY <2>3 DEF Push, Apply
      <3>2. QED BY <3>1, RestrictOpen DEF DropUser, Bump, TypeOK
    <2>4. QED BY <2>1, <2>2, <2>3 DEF Push, Apply
  <1>3. outbox' \subseteq Messages  BY DEF Push, TypeOK
  <1>4. QED BY <1>2, <1>3 DEF Push, TypeOK

LEMMA FinishTypes ==
    ASSUME TypeOK, NEW c \in Connects, NEW force \in BOOLEAN, NEW dead \in BOOLEAN,
           Finish(c, force, dead)
    PROVE  TypeOK'
  <1> DEFINE S == Survivors(answer[c])
             K == Keep(S, c, force, dead)
  <1>1. S \subseteq Open /\ K \subseteq S  BY DEF Survivors, Keep
  <1>2. answer[c] \in 0 .. MAX_GEN /\ 0 \in 0 .. MAX_GEN
    BY BoundsAssumption DEF TypeOK
  <1>3. /\ Open' \subseteq Connects /\ att' \in [Open' -> Attachments]
        /\ epoch' \in Nat /\ phase' \in [Connects -> Phases]
    <2>1. CASE Refuse(c) /\ UNCHANGED att
      BY <2>1, SameOpen DEF Refuse, TypeOK, Phases
    <2>2. CASE Refuse(c) /\ att' = Restrict(att, S)
      BY <2>2, <1>1, RestrictOpen DEF Refuse, TypeOK, Phases
    <2>3. CASE Accept(c, K)
      BY <2>3, <1>1, <1>2, BoundsAssumption
         DEF Accept, TypeOK, Phases, Open, Attachments
    <2>4. QED BY <2>1, <2>2, <2>3 DEF Finish
  <1>4. gen' \in 0 .. MAX_GEN /\ suspended' \in BOOLEAN
    BY <1>2 DEF Finish, TypeOK
  <1>5. stale' \subseteq Connects /\ answer' \in [Connects -> 0 .. MAX_GEN]
    BY <1>2 DEF Finish, TypeOK
  <1>6. QED BY <1>3, <1>4, <1>5 DEF Finish, TypeOK, d1Vars

LEMMA AgentTypes ==
    ASSUME TypeOK, NEW c \in Connects,
           \/ Connect(c) \/ Arrive(c) \/ ReadD1(c) \/ Record(c) \/ RevokeFresh(c)
           \/ RecordFails(c) \/ Hello(c) \/ Drain(c) \/ SocketGone(c)
    PROVE  TypeOK'
  <1> USE DEF d1Vars, objVars
  <1>1. ASSUME Connect(c) \/ Arrive(c) \/ RecordFails(c) PROVE TypeOK'
    BY <1>1, SameOpen DEF Connect, Arrive, RecordFails, TypeOK, Phases
  <1>2. ASSUME ReadD1(c) PROVE TypeOK'
    <2>1. (IF Authorized(user[c]) THEN row.gen ELSE 0) \in 0 .. MAX_GEN
      BY BoundsAssumption DEF Authorized, Owns, HasRow, TypeOK, Rows, Gens
    <2>2. QED BY <1>2, <2>1, SameOpen DEF ReadD1, TypeOK, Phases
  <1>3. ASSUME Record(c) PROVE TypeOK'
    BY <1>3, SameOpen DEF Record, TypeOK, Phases
  <1>4. ASSUME RevokeFresh(c) PROVE TypeOK'
    BY <1>4, RestrictOpen DEF RevokeFresh, DropUser, TypeOK, Phases
  <1>5. ASSUME Hello(c) \/ Drain(c) PROVE TypeOK'
    <2>1. c \in Open /\ att[c] \in Attachments
      BY <1>5 DEF Hello, Drain, TypeOK
    <2>2. PICK r \in Attachments : att' = [att EXCEPT ![c] = r]
      <3>1. /\ [att[c] EXCEPT !.hello = TRUE] \in Attachments
            /\ [att[c] EXCEPT !.draining = TRUE] \in Attachments
        BY <2>1 DEF Attachments
      <3>2. QED BY <1>5, <3>1 DEF Hello, Drain
    <2>3. Open' \subseteq Connects /\ att' \in [Open' -> Attachments]
      BY <2>2 DEF Open, TypeOK
    <2>4. QED BY <1>5, <2>3 DEF Hello, Drain, TypeOK
  <1>6. ASSUME SocketGone(c) PROVE TypeOK'
    <2>1. Open \ {c} \in SUBSET Open  OBVIOUS
    <2>2. Open' \subseteq Connects /\ att' \in [Open' -> Attachments]
      BY <1>6, <2>1, RestrictOpen DEF SocketGone
    <2>3. QED BY <1>6, <2>2 DEF SocketGone, TypeOK
  <1>7. QED BY <1>1, <1>2, <1>3, <1>4, <1>5, <1>6

LEMMA RestartTypes == TypeOK /\ Restart => TypeOK'
  BY NoneOpen, BoundsAssumption DEF Restart, d1Vars, TypeOK, Phases

LEMMA TypeStep == TypeOK /\ [Next]_vars => TypeOK'
  <1> SUFFICES ASSUME TypeOK, [Next]_vars PROVE TypeOK'  OBVIOUS
  <1>1. CASE ControlPlane
    BY <1>1, D1Types, PushTypes DEF ControlPlane
  <1>2. CASE Agents
    BY <1>2, AgentTypes, FinishTypes DEF Agents
  <1>3. CASE Restart
    BY <1>3, RestartTypes
  <1>4. CASE UNCHANGED vars
    BY <1>4, SameOpen DEF vars, d1Vars, objVars, agentVars, TypeOK
  <1>5. QED BY <1>1, <1>2, <1>3, <1>4 DEF Next

\* Every variable keeps its type: in particular no action looks up a socket that
\* is not open, and a generation adopted is one that was handed out.
THEOREM TypeCorrect == Spec => []TypeOK
  BY InitTypes, TypeStep, PTL DEF Spec
-----------------------------------------------------------------------------
(* The sockets of the object.                                              *)

\* Epochs grow; with SameGen and OneServing this is inductive.
EpochsBelow == \A c \in Open : att[c].epoch <= epoch
Sockets == SameGen /\ OneServing /\ EpochsBelow

LEMMA FewerSockets ==
    ASSUME Sockets, Fewer, gen' = gen, epoch' = epoch
    PROVE  Sockets'
  BY DEF Sockets, Fewer, SameGen, OneServing, EpochsBelow

LEMMA NoSockets == Open' = {} => Sockets'
  BY DEF Sockets, SameGen, OneServing, EpochsBelow

\* Adopting a generation leaves sockets of that generation only.
LEMMA SurvivorsAgree ==
    ASSUME SameGen, NEW g, NEW d \in Survivors(g)
    PROVE  d \in Open /\ att[d].gen = g
  BY DEF SameGen, Survivors

\* What the replace rules keep is draining: a current socket that is not would
\* have been dropped by rule 1, 2 or 4, or have refused the newcomer by rule 5.
LEMMA KeptDrain ==
    ASSUME TypeOK, OneServing, NEW S \in SUBSET Open, NEW c \in Connects,
           NEW force \in BOOLEAN, NEW dead \in BOOLEAN,
           ~InUse(S, c, force, dead),
           NEW d \in Keep(S, c, force, dead)
    PROVE  d \in S /\ att[d].draining
  <1>1. d \in S  BY DEF Keep
  <1>2. CASE d \in Current(S)
    BY <1>1, <1>2 DEF Keep, InUse, TypeOK, Attachments
  <1>3. CASE d \notin Current(S)
    <2>1. PICK e \in S : ~(att[e].epoch <= att[d].epoch)
      BY <1>1, <1>3 DEF Current
    <2>2. att[d].epoch < att[e].epoch
      BY <1>1, <2>1 DEF TypeOK, Attachments
    <2>3. QED BY <1>1, <2>1, <2>2 DEF OneServing
  <1>4. QED BY <1>1, <1>2, <1>3

LEMMA FinishSockets ==
    ASSUME TypeOK, Sockets, NEW c \in Connects, NEW force \in BOOLEAN,
           NEW dead \in BOOLEAN, Finish(c, force, dead)
    PROVE  Sockets'
  <1> DEFINE S == Survivors(answer[c])
             K == Keep(S, c, force, dead)
  <1>1. S \subseteq Open /\ K \subseteq S  BY DEF Survivors, Keep
  <1>2. CASE answer[c] = 0 \/ c \in stale
    BY <1>2, SameOpen, FewerSockets DEF Finish, Refuse
  <1>3. CASE ~(answer[c] = 0 \/ c \in stale) /\ Refuse(c) /\ att' = Restrict(att, S)
    <2>1. Fewer /\ Open' = S  BY <1>1, <1>3, RestrictOpen
    <2>2. gen' = answer[c] /\ epoch' = epoch  BY <1>3 DEF Finish, Refuse
    <2>3. SameGen'
      BY <2>1, <2>2, SurvivorsAgree DEF SameGen, Fewer, Sockets
    <2>4. OneServing' /\ EpochsBelow'
      BY <2>1, <2>2 DEF Sockets, Fewer, OneServing, EpochsBelow
    <2>5. QED BY <2>3, <2>4 DEF Sockets
  <1>4. CASE /\ ~(answer[c] = 0 \/ c \in stale)
             /\ ~InUse(S, c, force, dead) /\ Accept(c, K)
    <2>1. gen' = answer[c] /\ epoch' = epoch + 1 /\ epoch \in Nat
      BY <1>4 DEF Finish, Accept, TypeOK
    <2>2. Open' = K \cup {c}
      BY <1>4 DEF Accept, Open
    <2>3. att'[c].epoch = epoch + 1 /\ att'[c].gen = answer[c]
      BY <1>4 DEF Accept
    <2>4. ASSUME NEW d \in K, d # c
          PROVE  /\ att'[d] = att[d]
                 /\ att[d].draining /\ att[d].gen = answer[c]
                 /\ att[d].epoch \in Nat /\ att[d].epoch <= epoch
      <3>1. att'[d] = att[d]  BY <1>4, <2>4 DEF Accept
      <3>2. d \in S /\ att[d].draining
        BY <1>1, <1>4, KeptDrain DEF Sockets
      <3>3. d \in Open /\ att[d].gen = answer[c]
        BY <3>2, SurvivorsAgree DEF Sockets
      <3>4. att[d].epoch \in Nat /\ att[d].epoch <= epoch
        BY <3>3 DEF Sockets, EpochsBelow, TypeOK, Attachments
      <3>5. QED BY <3>1, <3>2, <3>3, <3>4
    <2>5. SameGen'  BY <2>1, <2>2, <2>3, <2>4 DEF SameGen
    <2>6. OneServing'  BY <2>1, <2>2, <2>3, <2>4 DEF OneServing
    <2>7. EpochsBelow'  BY <2>1, <2>2, <2>3, <2>4 DEF EpochsBelow
    <2>8. QED BY <2>5, <2>6, <2>7 DEF Sockets
  <1>5. QED BY <1>2, <1>3, <1>4 DEF Finish

\* HELLO and DRAIN mark one socket.
LEMMA MarkSockets ==
    ASSUME TypeOK, Sockets, NEW c \in Connects, Hello(c) \/ Drain(c)
    PROVE  Sockets'
  <1>1. gen' = gen /\ epoch' = epoch  BY DEF Hello, Drain, objVars
  <1>2. ASSUME NEW d \in Open'
        PROVE  /\ d \in Open
               /\ att'[d].epoch = att[d].epoch
               /\ att'[d].gen = att[d].gen
               /\ att[d].draining => att'[d].draining
    <2>1. d \in Open  BY DEF Hello, Drain, Open, TypeOK
    <2>2. att[d] \in Attachments  BY <2>1 DEF TypeOK
    <2>3. \/ att'[d] = [att[d] EXCEPT !.hello = TRUE]
          \/ att'[d] = [att[d] EXCEPT !.draining = TRUE]
          \/ att'[d] = att[d]
      BY <2>1 DEF Hello, Drain, Open, TypeOK
    <2>4. QED BY <2>1, <2>2, <2>3 DEF Attachments
  <1>3. SameGen'  BY <1>1, <1>2 DEF Sockets, SameGen
  <1>4. EpochsBelow'  BY <1>1, <1>2 DEF Sockets, EpochsBelow
  <1>5. ASSUME NEW d \in Open', NEW e \in Open', att'[d].epoch < att'[e].epoch
        PROVE  att'[d].draining
    <2>1. d \in Open /\ e \in Open /\ att[d].epoch < att[e].epoch  BY <1>2, <1>5
    <2>2. att[d].draining  BY <2>1 DEF Sockets, OneServing
    <2>3. QED BY <1>2, <2>2
  <1>6. OneServing'  BY <1>5 DEF OneServing
  <1>7. QED BY <1>3, <1>4, <1>6 DEF Sockets

LEMMA SocketsStep == TypeOK /\ Sockets /\ [Next]_vars => Sockets'
  <1> SUFFICES ASSUME TypeOK, Sockets, [Next]_vars PROVE Sockets'  OBVIOUS
  <1> USE DEF d1Vars, objVars, agentVars, vars
  <1>1. CASE UNCHANGED <<gen, epoch, att>>
    BY <1>1, SameOpen, FewerSockets
  <1>2. ASSUME NEW m \in outbox, NEW acknowledged \in BOOLEAN, Push(m, acknowledged)
        PROVE  Sockets'
    <2>1. Fewer \/ Open' = {}
      <3>1. \/ att' = <<>> \/ UNCHANGED att
            \/ DropUser(m.user)
        BY <1>2 DEF Push, Apply, Goaway, SetSuspended, Ignore
      <3>2. QED BY <3>1, NoneOpen, SameOpen, RestrictOpen DEF DropUser
    <2>2. QED BY <1>2, <2>1, FewerSockets, NoSockets DEF Push
  <1>3. ASSUME NEW c \in Connects, RevokeFresh(c) \/ SocketGone(c) PROVE Sockets'
    BY <1>3, RestrictOpen, FewerSockets DEF RevokeFresh, SocketGone, DropUser
  <1>4. ASSUME NEW c \in Connects, Hello(c) \/ Drain(c) PROVE Sockets'
    BY <1>4, MarkSockets
  <1>5. ASSUME NEW c \in Connects, NEW force \in BOOLEAN, NEW dead \in BOOLEAN,
               Finish(c, force, dead)
        PROVE  Sockets'
    BY <1>5, FinishSockets
  <1>6. CASE Restart
    BY <1>6, NoneOpen, NoSockets DEF Restart
  <1>7. CASE Agents
    <2>1. PICK c \in Connects :
            \/ Connect(c) \/ Arrive(c) \/ ReadD1(c) \/ Record(c) \/ RecordFails(c)
            \/ RevokeFresh(c) \/ SocketGone(c) \/ Hello(c) \/ Drain(c)
            \/ \E force, dead \in BOOLEAN : Finish(c, force, dead)
      BY <1>7 DEF Agents
    <2>2. CASE Connect(c) \/ Arrive(c) \/ ReadD1(c) \/ Record(c) \/ RecordFails(c)
      BY <2>2, <1>1 DEF Connect, Arrive, ReadD1, Record, RecordFails
    <2>3. QED BY <2>1, <2>2, <1>3, <1>4, <1>5
  <1>8. CASE ControlPlane
    <2>1. UNCHANGED <<gen, epoch, att>>
          \/ \E m \in outbox, acknowledged \in BOOLEAN : Push(m, acknowledged)
      BY <1>8 DEF ControlPlane, Reserve, SuspendUser, ReinstateUser, DeleteUser, RevokeToken,
                  Remove, Block, Vacate, SetNameSuspended, ReconcileRead, ReconcileInsert
    <2>2. QED BY <2>1, <1>1, <1>2
  <1>9. QED BY <1>1, <1>6, <1>7, <1>8 DEF Next

LEMMA SocketsInvariant == Spec => []Sockets
  <1>1. Init => Sockets
    BY DEF Init, Open, Sockets, SameGen, OneServing, EpochsBelow
  <1>2. QED BY <1>1, TypeCorrect, SocketsStep, PTL DEF Spec

\* Nothing of a former incarnation of the name survives: every open socket was
\* admitted under the generation the object serves (adoptGen).
THEOREM SocketsOfOneGeneration == Spec => []SameGen
  <1>1. Sockets => SameGen  BY DEF Sockets
  <1>2. QED BY <1>1, SocketsInvariant, PTL

\* However many processes and accounts connect, force, drain and die: all open
\* sockets but the newest are draining (the replace rules of acceptAgent).
THEOREM OneAgentServes == Spec => []OneServing
  <1>1. Sockets => OneServing  BY DEF Sockets
  <1>2. QED BY <1>1, SocketsInvariant, PTL
-----------------------------------------------------------------------------
(* What the control plane owes the object.                                 *)

\* A push is due that will end what generation g serves for account u.
Due(u, g) ==
    \/ [action |-> "goaway", gen |-> g] \in outbox
    \/ [action |-> "setSuspended", gen |-> g, on |-> TRUE] \in outbox
    \/ [action |-> "revokeUser", user |-> u] \in outbox

Excused(u, g) == g \in missed \/ Due(u, g) \/ (Authorized(u) /\ row.gen = g)

\* Inductive: an open socket, and an answer of D1 that no bump of controlSeq has
\* made stale, is legitimate, or its end is due, or has been missed.
Excuses ==
    /\ \A c \in Open : Excused(user[c], att[c].gen)
    /\ \A c \in Connects :
          phase[c] = "read" /\ answer[c] # 0 /\ c \notin stale => Excused(user[c], answer[c])

\* A socket belongs to an attempt that was accepted.
OpenIsAccepted == \A c \in Open : phase[c] \in {"accepted", "unrecorded", "settled", "lost"}

RevokeDue(u) == \E a \in {"revokeToken", "revokeUser"} : [action |-> a, user |-> u] \in outbox

\* Inductive: the token of a settled socket has its session recorded, so that a
\* revocation finds the object; once it is revoked, a push is due.
Settled ==
    /\ OpenIsAccepted
    /\ \A c \in Open : phase[c] = "settled" => user[c] \in revoked \cup sessions
    /\ \A c \in Open : phase[c] = "settled" /\ user[c] \in revoked => RevokeDue(user[c])

D1Step ==
    \/ \E u \in Users : Reserve(u) \/ SuspendUser(u) \/ ReinstateUser(u)
                        \/ DeleteUser(u) \/ RevokeToken(u)
    \/ Remove \/ Block
    \/ \E on \in BOOLEAN : SetNameSuspended(on)
    \/ ReconcileRead \/ ReconcileInsert

\* Every change of D1 that ends an authorization leaves a row in the outbox.
LEMMA D1Excuses ==
    ASSUME TypeOK, NEW u \in Users, NEW g \in Nat, Excused(u, g), D1Step
    PROVE  Excused(u, g)'
  <1> USE DEF Excused, Due, Authorized, Owns, HasRow, objVars, agentVars
  <1>1. outbox \subseteq outbox' /\ UNCHANGED missed
    BY DEF D1Step, Reserve, SuspendUser, ReinstateUser, DeleteUser, RevokeToken, Remove, Block,
           Vacate, SetNameSuspended, ReconcileRead, ReconcileInsert
  <1>2. CASE g \in missed \/ Due(u, g)
    BY <1>1, <1>2
  <1>3. CASE Authorized(u) /\ row.gen = g
    <2>1. ASSUME NEW v \in Users, Reserve(v) \/ ReinstateUser(v) \/ RevokeToken(v)
          PROVE  Excused(u, g)'
      BY <1>3, <2>1 DEF Reserve, ReinstateUser, RevokeToken, TypeOK
    <2>2. ASSUME NEW v \in Users, SuspendUser(v) \/ DeleteUser(v) PROVE Excused(u, g)'
      <3>1. CASE v = u
        <4>1. [action |-> "revokeUser", user |-> u] \in [action : {"revokeUser"}, user : {u}]
          OBVIOUS
        <4>2. [action |-> "revokeUser", user |-> u] \in outbox'
          BY <1>3, <2>2, <3>1, <4>1 DEF SuspendUser, DeleteUser
        <4>3. QED BY <4>2
      <3>2. CASE v # u
        BY <1>3, <2>2, <3>2 DEF SuspendUser, DeleteUser, TypeOK
      <3>3. QED BY <3>1, <3>2
    <2>3. CASE Remove \/ Block
      BY <1>3, <2>3 DEF Remove, Block, Vacate
    <2>4. ASSUME NEW on \in BOOLEAN, SetNameSuspended(on) PROVE Excused(u, g)'
      <3>1. on = TRUE  BY <1>3, <2>4 DEF SetNameSuspended
      <3>2. [action |-> "setSuspended", gen |-> g, on |-> TRUE] \in outbox'
        BY <1>3, <2>4, <3>1 DEF SetNameSuspended
      <3>3. QED BY <3>2
    <2>5. CASE ReconcileRead \/ ReconcileInsert
      BY <1>3, <2>5 DEF ReconcileRead, ReconcileInsert
    <2>6. QED BY <2>1, <2>2, <2>3, <2>4, <2>5 DEF D1Step
  <1>4. QED BY <1>2, <1>3 DEF Excused

\* A push that was due has done its work, or the object has missed it.
LEMMA PushExcuses ==
    ASSUME TypeOK, NEW u \in Users, NEW g \in Nat, Excused(u, g),
           NEW m \in outbox, NEW acknowledged \in BOOLEAN, Push(m, acknowledged)
    PROVE  Excused(u, g)' \/ (Bump /\ \A c \in Open' : user[c] # u)
  <1>1. outbox \ {m} \subseteq outbox' /\ UNCHANGED <<row, userStatus, user>> /\ Apply(m)
    BY DEF Push
  <1>2. missed \subseteq missed'
    BY <1>1 DEF Apply, Goaway, SetSuspended, Ignore
  <1>3. CASE m = [action |-> "goaway", gen |-> g]
    <2>1. Goaway \/ Ignore(g)  BY <1>1, <1>3 DEF Apply
    <2>2. QED BY <2>1, NoneOpen DEF Goaway, Ignore, Excused
  <1>4. CASE m = [action |-> "setSuspended", gen |-> g, on |-> TRUE]
    <2>1. SetSuspended(TRUE) \/ Ignore(g)  BY <1>1, <1>4 DEF Apply
    <2>2. QED BY <2>1, NoneOpen DEF SetSuspended, Ignore, Excused
  <1>5. CASE m = [action |-> "revokeUser", user |-> u]
    <2>1. DropUser(u) /\ Bump  BY <1>1, <1>5 DEF Apply
    <2>2. {c \in Open : user[c] # u} \in SUBSET Open  OBVIOUS
    <2>3. Open' = {c \in Open : user[c] # u}
      BY <2>1, <2>2, RestrictOpen DEF DropUser
    <2>4. QED BY <2>1, <2>3
  <1>6. CASE /\ m # [action |-> "goaway", gen |-> g]
             /\ m # [action |-> "setSuspended", gen |-> g, on |-> TRUE]
             /\ m # [action |-> "revokeUser", user |-> u]
    BY <1>1, <1>2, <1>6 DEF Excused, Due, Authorized, Owns, HasRow
  <1>7. QED BY <1>3, <1>4, <1>5, <1>6

LEMMA PushOpen ==
    ASSUME TypeOK, NEW m \in outbox, NEW acknowledged \in BOOLEAN, Push(m, acknowledged)
    PROVE  Fewer
  <1>1. att' = <<>> \/ UNCHANGED att \/ DropUser(m.user)
    BY DEF Push, Apply, Goaway, SetSuspended, Ignore
  <1>2. CASE DropUser(m.user)
    <2>1. {c \in Open : user[c] # m.user} \in SUBSET Open  OBVIOUS
    <2>2. QED BY <1>2, <2>1, RestrictOpen DEF DropUser
  <1>3. QED BY <1>1, <1>2, NoneOpen, SameOpen DEF Fewer

LEMMA FinishOpen ==
    ASSUME TypeOK, OpenIsAccepted, NEW c \in Connects, NEW force \in BOOLEAN,
           NEW dead \in BOOLEAN, Finish(c, force, dead), NEW d \in Open'
    PROVE  \/ d \in Open /\ d # c /\ att'[d] = att[d] /\ phase'[d] = phase[d]
           \/ /\ d = c /\ phase'[c] = "accepted"
              /\ att'[c].gen = answer[c] /\ answer[c] # 0 /\ c \notin stale
  <1> DEFINE S == Survivors(answer[c])
             K == Keep(S, c, force, dead)
  <1>1. S \subseteq Open /\ K \subseteq S  BY DEF Survivors, Keep
  <1>2. c \notin Open /\ phase \in [Connects -> Phases] /\ Open \subseteq Connects
    BY DEF Finish, OpenIsAccepted, TypeOK
  <1>3. CASE Refuse(c) /\ (UNCHANGED att \/ att' = Restrict(att, S))
    <2>1. Fewer  BY <1>1, <1>3, SameOpen, RestrictOpen
    <2>2. QED BY <1>2, <1>3, <2>1 DEF Fewer, Refuse
  <1>4. CASE Accept(c, K) /\ answer[c] # 0 /\ c \notin stale
    <2>1. Open' = K \cup {c}  BY <1>4 DEF Accept, Open
    <2>2. CASE d = c
      BY <1>2, <1>4, <2>1, <2>2 DEF Accept
    <2>3. CASE d # c
      <3>1. d \in K /\ d \in Open  BY <1>1, <2>1, <2>3
      <3>2. att'[d] = att[d] /\ phase'[d] = phase[d]
        BY <1>2, <1>4, <2>3, <3>1 DEF Accept
      <3>3. QED BY <2>3, <3>1, <3>2
    <2>4. QED BY <2>2, <2>3
  <1>5. QED BY <1>3, <1>4 DEF Finish

LEMMA MarkOpen ==
    ASSUME TypeOK, NEW c \in Connects, Hello(c) \/ Drain(c), NEW d \in Open'
    PROVE  d \in Open /\ att'[d].gen = att[d].gen
  <1>1. d \in Open  BY DEF Hello, Drain, Open, TypeOK
  <1>2. att[d] \in Attachments  BY <1>1 DEF TypeOK
  <1>3. \/ att'[d] = [att[d] EXCEPT !.hello = TRUE]
        \/ att'[d] = [att[d] EXCEPT !.draining = TRUE]
        \/ att'[d] = att[d]
    BY <1>1 DEF Hello, Drain, Open, TypeOK
  <1>4. QED BY <1>1, <1>2, <1>3 DEF Attachments

\* Steps that neither owe nor pay: sockets only close, answers only go.
LEMMA ExcusesStand ==
    ASSUME TypeOK, Excuses,
           UNCHANGED <<row, userStatus, outbox, missed, user>>,
           \A d \in Open' : d \in Open /\ att'[d].gen = att[d].gen,
           \A d \in Connects :
               phase'[d] = "read" /\ answer'[d] # 0 /\ d \notin stale'
                   => phase[d] = "read" /\ answer'[d] = answer[d] /\ d \notin stale
    PROVE  Excuses'
  <1>1. ASSUME NEW u, NEW g, Excused(u, g) PROVE Excused(u, g)'
    BY <1>1 DEF Excused, Due, Authorized, Owns, HasRow
  <1>2. QED BY <1>1 DEF Excuses

LEMMA ExcusesStep == TypeOK /\ OpenIsAccepted /\ Excuses /\ [Next]_vars => Excuses'
  <1> SUFFICES ASSUME TypeOK, OpenIsAccepted, Excuses, [Next]_vars PROVE Excuses'  OBVIOUS
  <1> USE DEF d1Vars, objVars, agentVars, vars
  <1>0. /\ \A c \in Open : c \in Connects /\ user[c] \in Users /\ att[c].gen \in Nat
        /\ \A c \in Connects : user[c] \in Users /\ answer[c] \in Nat
    BY BoundsAssumption DEF TypeOK, Attachments
  <1>1. CASE D1Step
    <2>1. UNCHANGED <<objVars, agentVars>>
      BY <1>1 DEF D1Step, Reserve, SuspendUser, ReinstateUser, DeleteUser, RevokeToken, Remove,
             Block, Vacate, SetNameSuspended, ReconcileRead, ReconcileInsert
    <2>2. \A u \in Users, g \in Nat : Excused(u, g) => Excused(u, g)'
      BY <1>1, D1Excuses
    <2>3. Open' = Open  BY <2>1 DEF Open
    <2>4. QED BY <1>0, <2>1, <2>2, <2>3 DEF Excuses
  <1>2. ASSUME NEW m \in outbox, NEW acknowledged \in BOOLEAN, Push(m, acknowledged)
        PROVE  Excuses'
    <2>1. UNCHANGED <<user, phase, answer>> /\ stale \subseteq stale'
      BY <1>2 DEF Push, Apply, Goaway, SetSuspended, Ignore, Bump
    <2>2. Fewer  BY <1>2, PushOpen
    <2>3. ASSUME NEW u \in Users, NEW g \in Nat, Excused(u, g)
          PROVE  Excused(u, g)' \/ (Bump /\ \A c \in Open' : user[c] # u)
      BY <1>2, <2>3, PushExcuses
    <2>4. ASSUME NEW c \in Open' PROVE Excused(user[c], att[c].gen)'
      <3>1. c \in Open /\ att'[c] = att[c]  BY <2>2 DEF Fewer
      <3>2. Excused(user[c], att[c].gen)  BY <3>1 DEF Excuses
      <3>3. QED BY <1>0, <2>1, <2>3, <3>1, <3>2
    <2>5. ASSUME NEW c \in Connects, phase'[c] = "read", answer'[c] # 0, c \notin stale'
          PROVE  Excused(user[c], answer[c])'
      <3>1. phase[c] = "read" /\ Excused(user[c], answer[c])
        BY <2>1, <2>5 DEF Excuses
      <3>2. ~Bump  BY <2>5, <3>1 DEF Bump
      <3>3. QED BY <1>0, <2>1, <2>3, <3>1, <3>2
    <2>6. QED BY <2>4, <2>5 DEF Excuses
  <1>3. ASSUME NEW c \in Connects, ReadD1(c) PROVE Excuses'
    <2>1. UNCHANGED <<d1Vars, objVars, user, att>> /\ Open' = Open
      BY <1>3 DEF ReadD1, Open
    <2>2. \A u, g : Excused(u, g) => Excused(u, g)'
      BY <2>1 DEF Excused, Due, Authorized, Owns, HasRow
    <2>3. ASSUME NEW d \in Connects, phase'[d] = "read", answer'[d] # 0, d \notin stale'
          PROVE  Excused(user[d], answer[d])'
      <3>1. CASE d = c
        <4>1. answer'[c] = IF Authorized(user[c]) THEN row.gen ELSE 0
          BY <1>3 DEF ReadD1, TypeOK
        <4>2. Authorized(user[c]) /\ row.gen = answer'[c]  BY <2>3, <3>1, <4>1
        <4>3. QED BY <2>1, <3>1, <4>2 DEF Excused, Authorized, Owns, HasRow
      <3>2. CASE d # c
        <4>1. phase[d] = "read" /\ answer'[d] = answer[d] /\ d \notin stale
          BY <1>3, <2>1, <2>3, <3>2 DEF ReadD1, TypeOK
        <4>2. QED BY <2>1, <2>2, <2>3, <4>1 DEF Excuses
      <3>3. QED BY <3>1, <3>2
    <2>4. QED BY <2>1, <2>2, <2>3 DEF Excuses
  <1>4. ASSUME NEW c \in Connects, NEW force \in BOOLEAN, NEW dead \in BOOLEAN,
               Finish(c, force, dead)
        PROVE  Excuses'
    <2>1. UNCHANGED <<d1Vars, missed, user>> /\ phase[c] = "read"
      BY <1>4 DEF Finish
    <2>2. \A u, g : Excused(u, g) => Excused(u, g)'
      BY <2>1 DEF Excused, Due, Authorized, Owns, HasRow
    <2>3. ASSUME NEW d \in Open' PROVE Excused(user[d], att[d].gen)'
      <3>1. \/ d \in Open /\ att'[d] = att[d]
            \/ d = c /\ att'[c].gen = answer[c] /\ answer[c] # 0 /\ c \notin stale
        BY <1>4, FinishOpen
      <3>2. QED BY <2>1, <2>2, <3>1 DEF Excuses
    <2>4. ASSUME NEW d \in Connects, phase'[d] = "read", answer'[d] # 0, d \notin stale'
          PROVE  Excused(user[d], answer[d])'
      <3>1. d # c /\ answer'[d] = answer[d] /\ d \notin stale /\ phase[d] = "read"
        BY <1>4, <2>4 DEF Finish, Refuse, Accept, TypeOK
      <3>2. QED BY <2>1, <2>2, <2>4, <3>1 DEF Excuses
    <2>5. QED BY <2>3, <2>4 DEF Excuses
  <1>5. ASSUME NEW c \in Connects, Connect(c) \/ Arrive(c) \/ Record(c) \/ RecordFails(c)
        PROVE  Excuses'
    <2>1. UNCHANGED <<row, userStatus, outbox, missed, user, stale, answer, att>> /\ Open' = Open
      BY <1>5 DEF Connect, Arrive, Record, RecordFails, Open
    <2>2. \A d \in Connects : phase'[d] = "read" => phase[d] = "read"
      BY <1>5 DEF Connect, Arrive, Record, RecordFails, TypeOK
    <2>3. QED BY <2>1, <2>2, ExcusesStand
  <1>6. ASSUME NEW c \in Connects, RevokeFresh(c) \/ SocketGone(c) PROVE Excuses'
    <2>1. UNCHANGED <<row, userStatus, outbox, missed, user, stale, answer>> /\ Fewer
      BY <1>6, RestrictOpen DEF RevokeFresh, SocketGone, DropUser
    <2>2. \A d \in Connects : phase'[d] = "read" => phase[d] = "read"
      BY <1>6 DEF RevokeFresh, SocketGone, TypeOK
    <2>3. QED BY <2>1, <2>2, ExcusesStand DEF Fewer
  <1>7. ASSUME NEW c \in Connects, Hello(c) \/ Drain(c) PROVE Excuses'
    <2>1. UNCHANGED <<row, userStatus, outbox, missed, user, stale, answer, phase>>
      BY <1>7 DEF Hello, Drain
    <2>2. QED BY <1>7, <2>1, MarkOpen, ExcusesStand
  <1>8. CASE Restart
    <2>1. UNCHANGED <<row, userStatus, outbox, missed, user>> /\ Open' = {}
          /\ \A d \in Connects : answer'[d] = 0
      BY <1>8, NoneOpen DEF Restart
    <2>2. QED BY <2>1, ExcusesStand
  <1>9. CASE UNCHANGED vars
    BY <1>9, SameOpen, ExcusesStand DEF Fewer
  <1>10. CASE Agents
    BY <1>3, <1>4, <1>5, <1>6, <1>7, <1>10 DEF Agents
  <1>11. CASE ControlPlane
    BY <1>1, <1>2, <1>11 DEF ControlPlane, D1Step
  <1>12. QED BY <1>8, <1>9, <1>10, <1>11 DEF Next

LEMMA D1Settled == ASSUME TypeOK, Settled, D1Step PROVE Settled'
  <1> USE DEF objVars, agentVars
  <1>1. UNCHANGED <<att, phase, user>> /\ outbox \subseteq outbox' /\ revoked \subseteq revoked'
    BY DEF D1Step, Reserve, SuspendUser, ReinstateUser, DeleteUser, RevokeToken, Remove, Block,
           Vacate, SetNameSuspended, ReconcileRead, ReconcileInsert
  <1>2. Open' = Open  BY <1>1 DEF Open
  <1>3. \A u : RevokeDue(u) => RevokeDue(u)'  BY <1>1 DEF RevokeDue
  <1>4. CASE UNCHANGED <<revoked, sessions>>
    BY <1>1, <1>2, <1>3, <1>4 DEF Settled, OpenIsAccepted
  <1>5. ASSUME NEW u \in Users, RevokeToken(u) \/ DeleteUser(u) PROVE Settled'
    <2>1. revoked' = revoked \cup {u} /\ sessions \subseteq sessions' \cup {u}
      BY <1>5 DEF RevokeToken, DeleteUser
    <2>2. u \in sessions => RevokeDue(u)'
      <3>1. CASE RevokeToken(u) /\ u \in sessions
        <4>1. [action |-> "revokeToken", user |-> u] \in outbox'
          BY <3>1 DEF RevokeToken
        <4>2. QED BY <4>1 DEF RevokeDue
      <3>2. CASE DeleteUser(u) /\ u \in sessions
        <4>1. [action |-> "revokeUser", user |-> u] \in outbox'
          BY <3>2 DEF DeleteUser
        <4>2. QED BY <4>1 DEF RevokeDue
      <3>3. QED BY <1>5, <3>1, <3>2
    <2>3. QED BY <1>1, <1>2, <1>3, <2>1, <2>2 DEF Settled, OpenIsAccepted
  <1>6. QED
    BY <1>4, <1>5 DEF D1Step, Reserve, SuspendUser, ReinstateUser, Remove, Block, Vacate,
       SetNameSuspended, ReconcileRead, ReconcileInsert

LEMMA SettledStep == TypeOK /\ Settled /\ [Next]_vars => Settled'
  <1> SUFFICES ASSUME TypeOK, Settled, [Next]_vars PROVE Settled'  OBVIOUS
  <1> USE DEF d1Vars, objVars, agentVars, vars
  <1>0. /\ OpenIsAccepted /\ Open \subseteq Connects /\ phase \in [Connects -> Phases]
    BY DEF Settled, TypeOK
  <1>1. ASSUME UNCHANGED <<revoked, sessions, outbox, user>>,
               \A d \in Open' : d \in Open /\ (phase'[d] = phase[d] \/ phase'[d] = "lost")
        PROVE  Settled'
    BY <1>1 DEF Settled, OpenIsAccepted, RevokeDue
  <1>2. ASSUME NEW m \in outbox, NEW acknowledged \in BOOLEAN, Push(m, acknowledged)
        PROVE  Settled'
    <2>1. UNCHANGED <<user, phase, revoked, sessions>> /\ Apply(m) /\ outbox \ {m} \subseteq outbox'
      BY <1>2 DEF Push
    <2>2. Fewer  BY <1>2, PushOpen
    <2>3. ASSUME NEW c \in Open', RevokeDue(user[c]) PROVE RevokeDue(user[c])'
      <3>1. PICK a \in {"revokeToken", "revokeUser"} : [action |-> a, user |-> user[c]] \in outbox
        BY <2>3 DEF RevokeDue
      <3>2. CASE m = [action |-> a, user |-> user[c]]
        <4>1. DropUser(user[c])  BY <2>1, <3>1, <3>2 DEF Apply
        <4>2. {d \in Open : user[d] # user[c]} \in SUBSET Open  OBVIOUS
        <4>3. Open' = {d \in Open : user[d] # user[c]}
          BY <4>1, <4>2, RestrictOpen DEF DropUser
        <4>4. QED BY <4>3
      <3>3. CASE m # [action |-> a, user |-> user[c]]
        BY <2>1, <3>1, <3>3 DEF RevokeDue
      <3>4. QED BY <3>2, <3>3
    <2>4. QED BY <2>1, <2>2, <2>3 DEF Settled, OpenIsAccepted, Fewer
  <1>3. ASSUME NEW c \in Connects, NEW force \in BOOLEAN, NEW dead \in BOOLEAN,
               Finish(c, force, dead)
        PROVE  Settled'
    <2>1. UNCHANGED <<revoked, sessions, outbox, user>>  BY <1>3 DEF Finish
    <2>2. \A d \in Open' : (d \in Open /\ phase'[d] = phase[d]) \/ phase'[d] = "accepted"
      BY <1>0, <1>3, FinishOpen
    <2>3. QED BY <2>1, <2>2 DEF Settled, OpenIsAccepted, RevokeDue
  <1>4. ASSUME NEW c \in Connects, Record(c) PROVE Settled'
    <2>1. UNCHANGED <<revoked, outbox, user, att>> /\ Open' = Open
      BY <1>4 DEF Record, Open
    <2>2. CASE user[c] \in revoked
      <3>1. UNCHANGED sessions /\ phase' = [phase EXCEPT ![c] = "unrecorded"]
        BY <1>4, <2>2 DEF Record
      <3>2. QED BY <1>0, <2>1, <3>1 DEF Settled, OpenIsAccepted, RevokeDue
    <2>3. CASE user[c] \notin revoked
      <3>1. sessions' = sessions \cup {user[c]} /\ phase' = [phase EXCEPT ![c] = "settled"]
        BY <1>4, <2>3 DEF Record
      <3>2. QED BY <1>0, <2>1, <2>3, <3>1 DEF Settled, OpenIsAccepted, RevokeDue
    <2>4. QED BY <2>2, <2>3
  <1>5. ASSUME NEW c \in Connects, RevokeFresh(c) PROVE Settled'
    <2>1. {d \in Open : user[d] # user[c]} \in SUBSET Open  OBVIOUS
    <2>2. Open' = {d \in Open : user[d] # user[c]}
      BY <1>5, <2>1, RestrictOpen DEF RevokeFresh, DropUser
    <2>3. \A d \in Open' : d \in Open /\ phase'[d] = phase[d]
      BY <1>0, <1>5, <2>2 DEF RevokeFresh
    <2>4. QED BY <1>1, <1>5, <2>3 DEF RevokeFresh
  <1>6. ASSUME NEW c \in Connects, Connect(c) \/ Arrive(c) \/ ReadD1(c) \/ RecordFails(c)
        PROVE  Settled'
    <2>1. UNCHANGED <<revoked, sessions, outbox, user>> /\ Open' = Open
      BY <1>6 DEF Connect, Arrive, ReadD1, RecordFails, Open
    <2>2. \A d \in Open : phase'[d] = phase[d] \/ phase'[d] = "lost"
      BY <1>0, <1>6 DEF Connect, Arrive, ReadD1, RecordFails, OpenIsAccepted
    <2>3. QED BY <1>1, <2>1, <2>2
  <1>7. ASSUME NEW c \in Connects, Hello(c) \/ Drain(c) PROVE Settled'
    BY <1>1, <1>7, MarkOpen DEF Hello, Drain
  <1>8. ASSUME NEW c \in Connects, SocketGone(c) PROVE Settled'
    BY <1>1, <1>8, RestrictOpen DEF SocketGone, Fewer
  <1>9. CASE Restart
    <2>1. Open' = {} /\ UNCHANGED <<revoked, sessions, outbox, user>>
      BY <1>9, NoneOpen DEF Restart
    <2>2. QED BY <1>1, <2>1
  <1>10. CASE UNCHANGED vars
    BY <1>1, <1>10, SameOpen DEF Fewer
  <1>11. CASE Agents
    BY <1>3, <1>4, <1>5, <1>6, <1>7, <1>8, <1>11 DEF Agents
  <1>12. CASE ControlPlane
    BY <1>2, <1>12, D1Settled DEF ControlPlane, D1Step
  <1>13. QED BY <1>9, <1>10, <1>11, <1>12 DEF Next

LEMMA InitSettled == Init => Settled /\ Excuses
  BY DEF Init, Open, Settled, Excuses, OpenIsAccepted

LEMMA SettledInvariant == Spec => []Settled
  BY InitSettled, TypeCorrect, SettledStep, PTL DEF Spec

\* Once all pushes are delivered, a socket of a revoked token is open only if
\* recording its session failed (RevokedIsClosed): INSERT ... WHERE not revoked
\* and the notification of recorded sessions leave no other gap.
THEOREM RevocationCloses == Spec => []RevokedIsClosed
  <1>1. TypeOK /\ Settled => RevokedIsClosed
    <2> SUFFICES ASSUME TypeOK, Settled, Quiet, NEW c \in Open, user[c] \in revoked
                 PROVE  phase[c] = "lost"
      BY DEF RevokedIsClosed
    <2>1. c \in Connects /\ phase[c] \in {"accepted", "unrecorded", "settled", "lost"}
      BY DEF Settled, OpenIsAccepted, TypeOK
    <2>2. phase[c] = "settled" => RevokeDue(user[c])  BY DEF Settled
    <2>3. ~RevokeDue(user[c])  BY Zenon DEF RevokeDue, Quiet
    <2>4. QED BY <2>1, <2>2, <2>3 DEF Quiet
  <1>2. QED BY <1>1, TypeCorrect, SettledInvariant, PTL

\* Once all pushes are delivered, every agent serves the name legitimately or
\* was admitted under a generation for which the object has ignored a push
\* (OnlyMissedLinger): outbox rows and controlSeq close every other race.
THEOREM LegitimateUnlessMissed == Spec => []OnlyMissedLinger
  <1>1. Excuses => OnlyMissedLinger
    BY DEF Excuses, Excused, Due, OnlyMissedLinger, Quiet, Legitimate
  <1>2. TypeOK /\ Settled /\ Excuses /\ [Next]_vars => Excuses'
    BY ExcusesStep DEF Settled
  <1>3. QED BY <1>1, <1>2, InitSettled, TypeCorrect, SettledInvariant, PTL DEF Spec
=============================================================================
