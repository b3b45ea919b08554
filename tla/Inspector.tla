----------------------------- MODULE Inspector ------------------------------
(***************************************************************************)
(* The agent's request inspector (internal/inspector): the bounded store   *)
(* of entries, the recorder that tees every stream into it (capture.go),   *)
(* replay, and the page that follows its events (ui/app.js).  The store's  *)
(* mutex makes each of its sections one step; an event is published in a   *)
(* step of its own, after the unlock.  A body is the sequence of its       *)
(* chunks' numbers, each one byte; Host policy, what is in the headers and *)
(* what the page looks like are left out.                                  *)
(***************************************************************************)
EXTENDS Naturals, Sequences, FiniteSets, FiniteSetsExt

CONSTANTS
  Recs,            \* the streams that are recorded at one time
  MaxEntries, MaxBodyCapture, MaxTotalBytes,
  EVENTS,          \* capacity of a subscriber's channel (256 in Subscribe)
  Loads,           \* bound: the page's fetches of the list under way at one time
  HeaderBytes,     \* what the headers of each stream's entries count
  Size,            \* bound: the chunks of each stream's request and response body
  MAX_ENTRY_ID,    \* bound: entries recorded
  MAX_WATCHED      \* bound: of them, with a browser

ASSUME InspectorAssumption ==
  /\ MaxEntries \in Nat \ {0} /\ {MaxBodyCapture, MaxTotalBytes} \subseteq Nat
  /\ EVENTS \in Nat \ {0} /\ {MAX_ENTRY_ID, MAX_WATCHED} \subseteq Nat /\ "clear" \notin Recs
  /\ HeaderBytes \in [Recs -> Nat]
  /\ Size \in [Recs -> [{"req", "res"} -> Nat]]

VARIABLES
  nextID, order, entries, total,  \* the Store
  rec,       \* each stream: its streamRec, and how far its two goroutines are
  publishing,\* the events unlocked but not yet published
  open,      \* there is a subscriber
  channel,   \* its channel, and what is on its way from there to the page
  browser,   \* the page: what it shows of each entry, and its fetches
  watched    \* bound: either a browser follows, or there are bodies

inspectorVars ==
  <<nextID, order, entries, total, rec, publishing, open, channel, browser, watched>>

EntryIds == 1 .. MAX_ENTRY_ID
Nothing == [id |-> 0, done |-> TRUE]   \* no event; the "cleared" event is not done
Whole(n) == [k \in 1 .. n |-> k]
Sides == {"req", "res"}

NewRec == [id |-> 0, at |-> "new", declared |-> FALSE, seen |-> [s \in Sides |-> 0],
           losing |-> FALSE, dropped |-> {}, complete |-> FALSE, fed |-> FALSE]

(* replayOf: the entry is a replay.  Not in the code are its stream;       *)
(* settled, that feed was over when End ran; and cut, that feed had not    *)
(* seen all of an upload whose length nobody had declared.                 *)
NewEntry(r, req, replayOf) ==
  [stream |-> r, body |-> [s \in Sides |-> IF s = "req" THEN req ELSE <<>>], hint |-> {}, trunc |-> {},
   replayOf |-> replayOf, incomplete |-> FALSE, evicted |-> FALSE, done |-> FALSE, settled |-> FALSE,
   cut |-> FALSE]

Least(a, b) == IF a < b THEN a ELSE b

(* A declared length is allocated with the first chunk, up to the cap.     *)
Allocated(e, s) == IF s \in e.hint THEN Least(Size[e.stream][s], MaxBodyCapture) ELSE Len(e.body[s])
CapturedBodyBytes(e) == Allocated(e, "req") + Allocated(e, "res")
BodyBytes(e) == CapturedBodyBytes(e) + HeaderBytes[e.stream]

(* What the bodies of these entries, and all that es has, amount to.       *)
Bodies(es, ids) ==
  SumFunction([id \in EntryIds |-> IF id \in ids THEN CapturedBodyBytes(es[id]) ELSE 0])
Bytes(es) ==
  SumFunction([id \in EntryIds |-> IF id \in DOMAIN es THEN BodyBytes(es[id]) ELSE 0])

Views == {"absent", "pending", "done"}
Blank == [id \in EntryIds |-> "absent"]

(* A fetch of the list: the answer, and the entries it is too old for.     *)
NoLoad == [at |-> "none", list |-> Blank, missed |-> {}]

(* behind: the entries of which the page may have missed the last event.   *)
Page == [shown : [EntryIds -> Views], behind : SUBSET EntryIds,
         loads : [Loads -> [at : {"none", "asked", "listed"}, list : [EntryIds -> Views],
                            missed : SUBSET EntryIds]]]

InspectorTypeOK ==
  /\ nextID \in 0 .. MAX_ENTRY_ID /\ total \in Nat
  /\ order \in Seq(EntryIds) /\ DOMAIN entries \subseteq EntryIds
  /\ \A id \in DOMAIN entries :
       /\ entries[id].trunc \subseteq Sides /\ entries[id].hint \subseteq Sides
       /\ \A s \in Sides : Len(entries[id].body[s]) <= MaxBodyCapture
  /\ \A r \in Recs : /\ rec[r].id \in 0 .. MAX_ENTRY_ID
                     /\ rec[r].at \in {"new", "open", "answered", "over"}
                     /\ rec[r].losing \in BOOLEAN /\ rec[r].dropped \subseteq Sides
  /\ publishing \in [Recs \cup {"clear"} -> [id : 0 .. MAX_ENTRY_ID, done : BOOLEAN]]
  /\ Len(channel) <= EVENTS
  /\ open \in BOOLEAN /\ browser \in Page

InspectorInit ==
  /\ nextID = 0 /\ order = <<>> /\ entries = [id \in {} |-> <<>>] /\ total = 0
  /\ rec = [r \in Recs |-> NewRec]
  /\ publishing = [a \in Recs \cup {"clear"} |-> Nothing]
  /\ open = FALSE /\ channel = <<>>
  /\ browser = [shown |-> Blank, behind |-> {}, loads |-> [l \in Loads |-> NoLoad]]
  /\ watched \in BOOLEAN

---------------------------------------------------------------------------
(* The store.                                                              *)

Store(es, ord, sum) == [entries |-> es, order |-> ord, total |-> sum]

EvictEntries(st) ==
  IF Len(st.order) <= MaxEntries THEN st
  ELSE LET old == Head(st.order) IN
       Store([id \in DOMAIN st.entries \ {old} |-> st.entries[id]], Tail(st.order),
             st.total - BodyBytes(st.entries[old]))

EvictOldestBody(st) ==
  IF st.total <= MaxTotalBytes THEN st
  ELSE LET old == Head(st.order) IN
       Store([st.entries EXCEPT ![old].body = [s \in Sides |-> <<>>], ![old].hint = {},
                                ![old].evicted = TRUE],
             st.order, st.total - CapturedBodyBytes(st.entries[old]))

(* The bodies dropped: of the oldest entries, as few as bring the total    *)
(* down to the limit, or all of them.                                      *)
EvictBodies(st) ==
  LET upTo(n) == {st.order[i] : i \in 1 .. n}
      left(n) == st.total - Bodies(st.entries, upTo(n))
      n == Min({k \in 0 .. Len(st.order) : left(k) <= MaxTotalBytes} \cup {Len(st.order)})
  IN Store([id \in DOMAIN st.entries |->
              IF id \in upTo(n) /\ CapturedBodyBytes(st.entries[id]) > 0
              THEN [st.entries[id] EXCEPT !.body = [s \in Sides |-> <<>>], !.hint = {},
                                          !.evicted = TRUE]
              ELSE st.entries[id]],
           st.order, left(n))

EvictLocked(st) == EvictBodies(EvictEntries(st))

SetStore(st) == entries' = st.entries /\ order' = st.order /\ total' = st.total

(* What is left to publish; without a subscriber publish does nothing.     *)
Announce(a, ev) ==
  publishing' = [publishing EXCEPT ![a] = IF watched THEN ev ELSE Nothing]

(* add, with the event left to publish.                                    *)
Add(r, e) ==
  LET id == nextID + 1
      es == [i \in DOMAIN entries \cup {id} |-> IF i = id THEN e ELSE entries[i]]
  IN /\ nextID < MAX_ENTRY_ID /\ (watched => nextID < MAX_WATCHED) /\ nextID' = id
     /\ SetStore(EvictLocked(Store(es, Append(order, id), total + BodyBytes(e))))
     /\ Announce(r, [id |-> id, done |-> FALSE])

(* The locked part of update and mutate, for an entry that still exists.   *)
Mutated(id, e) ==
  SetStore(EvictLocked(Store([entries EXCEPT ![id] = e], order,
                             total + BodyBytes(e) - BodyBytes(entries[id]))))

Exists(r) == rec[r].id \in DOMAIN entries

(* update; an entry that is gone is neither changed nor announced.         *)
Update(r, e) ==
  IF Exists(r)
  THEN Mutated(rec[r].id, e)
       /\ Announce(r, [id |-> rec[r].id, done |-> e.done])
  ELSE UNCHANGED <<entries, order, total, publishing>>

Clear ==
  /\ publishing["clear"] = Nothing
  /\ SetStore(Store([id \in {} |-> <<>>], <<>>, 0))
  /\ Announce("clear", [id |-> 0, done |-> FALSE])
  /\ UNCHANGED <<nextID, rec, open, channel, browser, watched>>

---------------------------------------------------------------------------
(* streamRec.                                                              *)

(* Begin; the visitor may declare the length of the body.                  *)
Begin(r) ==
  /\ rec[r].at = "new"
  /\ Add(r, NewEntry(r, <<>>, FALSE))
  /\ \E declared \in IF watched THEN {FALSE} ELSE BOOLEAN :
       rec' = [rec EXCEPT ![r] = [NewRec EXCEPT !.id = nextID + 1, !.at = "open",
                 !.declared = declared, !.complete = watched, !.fed = watched]]
  /\ UNCHANGED <<open, channel, browser, watched>>

FoldNothing(r, e) == e

(* fold: what the hooks that found the store busy left behind.             *)
Fold(r, e) == [e EXCEPT !.trunc = @ \cup rec[r].dropped]

(* appendCapped, unless the bodies have been evicted.                      *)
Captured(r, s, e) ==
  IF e.evicted THEN e
  ELSE IF Len(e.body[s]) >= MaxBodyCapture THEN [e EXCEPT !.trunc = @ \cup {s}]
  ELSE [e EXCEPT !.body[s] = Append(@, rec[r].seen[s] + 1),
                 !.hint = IF s = "req" /\ rec[r].declared THEN @ \cup {s} ELSE @]

(* feed and the response's reader run while nothing else of theirs does.   *)
HasChunk(r, s) ==
  /\ ~watched /\ rec[r].seen[s] < Size[r][s]
  /\ s = "req" => rec[r].at # "new" /\ ~rec[r].fed /\ ~rec[r].losing
  /\ s = "res" => rec[r].at = "answered" /\ publishing[r] = Nothing

(* RequestBody and ResponseBody: mutate gets the lock.                     *)
Tee(r, s) ==
  /\ HasChunk(r, s)
  /\ IF Exists(r)
     THEN Mutated(rec[r].id, Captured(r, s, Fold(r, entries[rec[r].id])))
     ELSE UNCHANGED <<entries, order, total>>
  /\ rec' = [rec EXCEPT ![r].seen[s] = @ + 1,
                        ![r].dropped = IF Exists(r) THEN {} ELSE @]
  /\ UNCHANGED <<nextID, publishing, open, channel, browser, watched>>

(* mutate finds the lock taken; the flag is set afterwards, which only     *)
(* matters for the request: End follows the response in the same goroutine.*)
TeeBusy(r, s) ==
  /\ HasChunk(r, s)
  /\ rec' = [rec EXCEPT ![r].seen[s] = @ + 1, ![r].losing = @ \/ s = "req",
                        ![r].dropped = IF s = "req" THEN @ ELSE @ \cup {s}]
  /\ UNCHANGED <<nextID, order, entries, total, publishing, open, channel, browser, watched>>

FlagDropped(r) ==
  /\ rec[r].losing
  /\ rec' = [rec EXCEPT ![r].losing = FALSE, ![r].dropped = @ \cup {"req"}]
  /\ UNCHANGED <<nextID, order, entries, total, publishing, open, channel, browser, watched>>

(* REQ_END is read, whatever feed has done: the upload is over, or the     *)
(* response is and the edge stops the upload.                              *)
RequestEnd(r) ==
  /\ rec[r].at # "new" /\ ~rec[r].complete
  /\ rec' = [rec EXCEPT ![r].complete = TRUE]
  /\ UNCHANGED <<nextID, order, entries, total, publishing, open, channel, browser, watched>>

(* feed returns: after REQ_END and the last chunk, or because its context  *)
(* has ended; then it drops what is queued, REQ_END or not.                *)
Fed(r) ==
  /\ rec[r].at # "new" /\ ~rec[r].fed /\ ~rec[r].losing
  /\ rec' = [rec EXCEPT ![r].fed = TRUE]
  /\ UNCHANGED <<nextID, order, entries, total, publishing, open, channel, browser, watched>>

Response(r) ==
  /\ rec[r].at = "open" /\ publishing[r] = Nothing
  /\ Update(r, IF Exists(r) THEN Fold(r, entries[rec[r].id]) ELSE <<>>)
  /\ rec' = [rec EXCEPT ![r].at = "answered", ![r].dropped = IF Exists(r) THEN {} ELSE @]
  /\ UNCHANGED <<nextID, open, channel, browser, watched>>

(* End, after the response or without one, whether feed is over or not.    *)
End(r) ==
  LET short == rec[r].seen["req"] < Size[r]["req"]
      ended == [Fold(r, entries[rec[r].id]) EXCEPT
                  !.done = TRUE, !.incomplete = ~rec[r].complete \/ (rec[r].declared /\ short),
                  !.settled = rec[r].fed, !.cut = ~rec[r].declared /\ short]
  IN /\ rec[r].at \in {"open", "answered"} /\ publishing[r] = Nothing
     /\ Update(r, IF Exists(r) THEN ended ELSE <<>>)
     /\ rec' = [rec EXCEPT ![r].at = "over", ![r].dropped = IF Exists(r) THEN {} ELSE @]
     /\ UNCHANGED <<nextID, open, channel, browser, watched>>

Gone(r) ==
  /\ rec[r].at = "over" /\ rec[r].fed /\ publishing[r] = Nothing
  /\ rec' = [rec EXCEPT ![r] = NewRec]
  /\ UNCHANGED <<nextID, order, entries, total, publishing, open, channel, browser, watched>>

(* replayOne: what Get returned is checked, then sent and recorded.        *)
Replayable(e) == ~("req" \in e.trunc \/ e.evicted \/ e.incomplete)

Replay(id, r) ==
  /\ id \in DOMAIN entries /\ Replayable(entries[id]) /\ rec[r].at = "new"
  /\ LET body == entries[id].body["req"] IN
     /\ Add(r, NewEntry(r, body, TRUE))
     /\ rec' = [rec EXCEPT ![r] = [NewRec EXCEPT !.id = nextID + 1, !.at = "open",
                  !.seen["req"] = Len(body), !.complete = TRUE, !.fed = TRUE]]
  /\ UNCHANGED <<open, channel, browser, watched>>

---------------------------------------------------------------------------
(* The subscriber: one page, which subscribes and then fetches the list.   *)

Shown(id) == IF id \notin DOMAIN entries THEN "absent"
             ELSE IF entries[id].done THEN "done" ELSE "pending"

(* The answers that are waiting get too old for these entries.             *)
TooOld(loads, ids) ==
  [l \in Loads |-> IF loads[l].at = "listed" THEN [loads[l] EXCEPT !.missed = @ \cup ids]
                   ELSE loads[l]]

(* EventSource connects, once what the last connection brought is read, and *)
(* onopen begins to load; what the page shows is from before.              *)
Subscribe(l) ==
  /\ watched /\ ~open /\ channel = <<>> /\ browser.loads[l].at = "none" /\ open' = TRUE
  /\ browser' = [browser EXCEPT !.behind = EntryIds,
                   !.loads = [TooOld(@, EntryIds) EXCEPT ![l] = [NoLoad EXCEPT !.at = "asked"]]]
  /\ UNCHANGED <<nextID, order, entries, total, rec, publishing, channel, watched>>

(* GET /api/requests: List, under the store's lock.                        *)
List(l) ==
  /\ browser.loads[l].at = "asked"
  /\ browser' = [browser EXCEPT !.loads[l] = [at |-> "listed", missed |-> {},
                                              list |-> [id \in EntryIds |-> Shown(id)]]]
  /\ UNCHANGED <<nextID, order, entries, total, rec, publishing, open, channel, watched>>

(* load goes on when the tunnels are there too: it clears what is shown    *)
(* and shows the list, whatever events have come in the meantime.          *)
Loaded(l) ==
  /\ browser.loads[l].at = "listed"
  /\ browser' = [shown |-> browser.loads[l].list, behind |-> browser.loads[l].missed,
                 loads |-> [browser.loads EXCEPT ![l] = NoLoad]]
  /\ UNCHANGED <<nextID, order, entries, total, rec, publishing, open, channel, watched>>

(* One of the two fetches fails: nobody tries again.                       *)
LoadFails(l) ==
  /\ browser.loads[l].at # "none" /\ browser' = [browser EXCEPT !.loads[l] = NoLoad]
  /\ UNCHANGED <<nextID, order, entries, total, rec, publishing, open, channel, watched>>

PublishOrDrop(a) ==
  /\ publishing[a] # Nothing /\ publishing' = [publishing EXCEPT ![a] = Nothing]
  /\ channel' = IF open /\ Len(channel) < EVENTS THEN Append(channel, publishing[a])
                ELSE channel
  /\ UNCHANGED <<nextID, order, entries, total, rec, open, browser, watched>>

(* publish: a subscriber whose channel is full is disconnected; the page   *)
(* still gets what is in the closed channel.                               *)
Publish(a) ==
  /\ publishing[a] # Nothing /\ publishing' = [publishing EXCEPT ![a] = Nothing]
  /\ open' = (open /\ Len(channel) < EVENTS)
  /\ channel' = IF open' THEN Append(channel, publishing[a]) ELSE channel
  /\ UNCHANGED <<nextID, order, entries, total, rec, browser, watched>>

Receive ==
  /\ channel # <<>> /\ channel' = Tail(channel)
  /\ LET ev == Head(channel) IN
       browser' = [shown |-> [id \in EntryIds |->
                               IF ev.id = 0 THEN "absent"
                               ELSE IF id # ev.id THEN browser.shown[id]
                               ELSE IF ev.done THEN "done" ELSE "pending"],
                   behind |-> IF ev.id = 0 THEN {} ELSE browser.behind \ {ev.id},
                   loads |-> TooOld(browser.loads, {ev.id} \ {0})]
  /\ UNCHANGED <<nextID, order, entries, total, rec, publishing, open, watched>>

---------------------------------------------------------------------------
InspectorNext ==
  \/ \E r \in Recs :
       \/ Begin(r) \/ RequestEnd(r) \/ Fed(r) \/ Response(r) \/ End(r) \/ Gone(r) \/ FlagDropped(r)
       \/ \E s \in Sides : Tee(r, s) \/ TeeBusy(r, s)
       \/ \E id \in EntryIds : Replay(id, r)
  \/ \E a \in Recs \cup {"clear"} : Publish(a)
  \/ \E l \in Loads : Subscribe(l) \/ List(l) \/ Loaded(l) \/ LoadFails(l)
  \/ Clear \/ Receive

InspectorSpec == InspectorInit /\ [][InspectorNext]_inspectorVars

---------------------------------------------------------------------------
(* The store's memory is bounded, and counted right, while entries grow,   *)
(* are evicted under their recorder and cleared: beyond the limit only     *)
(* headers remain.                                                         *)
StoreBounded ==
  /\ Len(order) <= MaxEntries /\ DOMAIN entries = {order[i] : i \in DOMAIN order}
  /\ total = Bytes(entries)
  /\ \/ total <= MaxTotalBytes
     \/ \A id \in DOMAIN entries : CapturedBodyBytes(entries[id]) = 0

(* A replay never sends a body with a gap, nor does a replay of a replay.  *)
(* If the upload was over when its entry was finished the replay sends the *)
(* whole body: chunks lost to a busy store, to the cap or to an eviction,  *)
(* and uploads cut off, are flagged.  The one exception is an upload of    *)
(* undeclared length whose REQ_END was read, but whose last chunks feed    *)
(* dropped since its context had ended, or never got since the edge        *)
(* stopped it at the end of the response.                                  *)
ReplayIsWhole ==
  ~watched => \A id \in DOMAIN entries :
    LET e == entries[id] IN
      Replayable(e) =>
        /\ e.body["req"] = Whole(Len(e.body["req"]))
        /\ e.settled /\ ~e.cut /\ ~e.replayOf => e.body["req"] = Whole(Size[e.stream]["req"])

AllRead == open /\ channel = <<>> /\ \A a \in DOMAIN publishing : publishing[a] = Nothing

(* A page that is still connected and has read all its events shows no     *)
(* finished request as pending: it is disconnected rather than left out.   *)
(* It may only be behind with an entry whose event came while an older     *)
(* list was on its way, or with all if no list has come since it connected.*)
BrowserNotStale ==
  AllRead => \A id \in DOMAIN entries \ browser.behind :
               browser.shown[id] = "pending" => ~entries[id].done
=============================================================================
