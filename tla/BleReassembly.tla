---------------------------- MODULE BleReassembly ----------------------------
(***************************************************************************)
(* How the Bluetooth listener puts the chunks of a device's messages        *)
(* together again (client/ble_transport.py: _handle_notification,           *)
(* _reassemble_frame).  Notifications are handled one after another, in the *)
(* order they came in, and the one whose delivery was cancelled once more:  *)
(* that is BleSession's FIFO, which has no contents.  Here they have.       *)
(*                                                                          *)
(* The device is not under src/: it sends the chunks of a message in order  *)
(* and one message of a key after another; chunks of different keys may     *)
(* alternate.  A message is either a text cut into fragments, of which the  *)
(* first is no JSON object by itself, or a list of pages that all are.  A   *)
(* body here is a frame's body and trailer.                                 *)
(***************************************************************************)
EXTENDS Naturals, Sequences, TLC, Queues

CONSTANTS
  MessageKeys,   \* (cmd, flags): kind and msgId, by which assemblies are kept apart
  Fragments,     \* bodies that are no complete JSON object
  Pages,         \* bodies that are
  Lengths,       \* the values of chunk_count for each key
  MaxPending     \* _REASSEMBLY_MAX_MESSAGES_PER_DEVICE

ASSUME ReassemblyAssumption ==
  /\ Lengths \in [MessageKeys -> SUBSET (Nat \ {0})] /\ MaxPending \in Nat \ {0}
  /\ Fragments \cap Pages = {}

VARIABLES
  brSending,   \* the message of each key that the device is in the middle of
  brFrame,     \* notify_inflight, decoded, and what became of its delivery
  brPending,   \* _frame_assemblies[device]: the assemblies, and their keys by updated_at
  brObserved,  \* the bodies in the observation handed to the sink; none: is_fragment
  brWhole,     \* history: the bodies of a message so far, if nothing has come between
  brTroubled   \* history: the keys for which something has, on this connection

brVars == <<brSending, brFrame, brPending, brObserved, brWhole, brTroubled>>
history == <<brWhole, brTroubled>>

Bodies == Fragments \cup Pages
Between == [count |-> 0, sent |-> 0, pages |-> FALSE]
NoChunk == [at |-> "none"]
NoAssembly == [count |-> 0, frames |-> <<>>]
NothingPending == [order |-> <<>>, held |-> [k \in MessageKeys |-> NoAssembly]]

\* A chunk, or the one in flight.
IsChunk(f) ==
  /\ f.key \in MessageKeys /\ f.body \in Bodies
  /\ f.count \in Lengths[f.key] /\ f.index \in 1..f.count

\* Some of a message's chunks, but not all.
Assemblies(k) ==
  UNION {[count : {n}, frames : UNION {[some -> Bodies] : some \in (SUBSET (1..n)) \ {{}, 1..n}}] :
           n \in Lengths[k]}

IsPending(p) ==
  /\ p \in [order : Seq(MessageKeys),
            held : [MessageKeys -> (UNION {Assemblies(k) : k \in MessageKeys}) \cup {NoAssembly}]]
  /\ IsInjective(p.order) /\ Len(p.order) <= MaxPending
  /\ \A k \in MessageKeys :
       p.held[k] \in IF \E i \in DOMAIN p.order : p.order[i] = k THEN Assemblies(k) ELSE {NoAssembly}

BrTypeOK ==
  /\ brSending \in [MessageKeys -> [count : Nat, sent : Nat, pages : BOOLEAN]]
  /\ \A k \in MessageKeys :
       \/ brSending[k] = Between
       \/ brSending[k].count \in Lengths[k] /\ brSending[k].sent \in 1 .. brSending[k].count - 1
  /\ brFrame \in [key : MessageKeys, index : Nat, count : Nat, body : Bodies,
                  at : {"sink", "lost"}, again : BOOLEAN] \cup {NoChunk}
  /\ brFrame # NoChunk => IsChunk(brFrame)
  /\ IsPending(brPending)
  /\ brObserved \in Seq(Bodies)
  /\ brWhole \in [MessageKeys -> Seq(Bodies)] /\ brTroubled \subseteq MessageKeys

BrInit ==
  /\ brSending = [k \in MessageKeys |-> Between]
  /\ brFrame = NoChunk
  /\ brPending = NothingPending
  /\ brObserved = <<>>
  /\ brWhole = [k \in MessageKeys |-> <<>>] /\ brTroubled = {}

-------------------------------------------------------------------------------
(* _handle_notification, as a function of the assemblies and the frame.      *)

Assembly(pending, k) == pending.held[k]

OfOthers(pending, k) ==
  [order |-> Left(pending.order, k), held |-> [pending.held EXCEPT ![k] = NoAssembly]]

\* _continues_pending_assembly
Continues(pending, f) ==
  LET a == Assembly(pending, f.key)
  IN  f.index > 1 /\ a.count = f.count /\ 1 \in DOMAIN a.frames

\* The assembly has to make way for the frame's message: another chunk_count, or
\* another first chunk.
Supersedes(a, f) ==
  \/ a.count # f.count
  \/ f.index = 1 /\ 1 \in DOMAIN a.frames /\ a.frames[1] # f.body

Only(f) == [i \in {f.index} |-> f.body]

\* A chunk that is there already with other contents leaves only itself.
Joined(a, f) ==
  IF f.index \in DOMAIN a.frames /\ a.frames[f.index] # f.body
    THEN Only(f)
    ELSE [i \in DOMAIN a.frames \cup {f.index} |-> IF i = f.index THEN f.body ELSE a.frames[i]]

\* Where an assembly begins, the one that waits longest gives up its place.
Room(pending) ==
  IF Len(pending.order) >= MaxPending THEN OfOthers(pending, Head(pending.order)) ELSE pending

Reassembled(pending, f) ==
  LET held   == Assembly(pending, f.key)
      anew   == Supersedes(held, f)
      others == OfOthers(pending, f.key)
      kept   == IF anew THEN Room(others) ELSE others
      frames == IF anew THEN Only(f) ELSE Joined(held, f)
  IN  IF DOMAIN frames = 1..f.count
        THEN [pending |-> kept, observed |-> frames]
        ELSE [pending |->
                [order |-> Append(kept.order, f.key),
                 held |-> [kept.held EXCEPT ![f.key] = [count |-> f.count, frames |-> frames]]],
              observed |-> <<>>]

\* A complete JSON object that continues nothing is handed on as it is, and a first
\* one ends the assembly before it; so is a message of one chunk.
Handled(pending, f) ==
  IF f.body \in Pages /\ ~Continues(pending, f)
    THEN [pending |-> IF f.index = 1 THEN OfOthers(pending, f.key) ELSE pending,
          observed |-> <<f.body>>]
    ELSE IF f.count = 1 THEN [pending |-> pending, observed |-> <<f.body>>]
                        ELSE Reassembled(pending, f)

-------------------------------------------------------------------------------
(* The history.  Trouble with a key is a chunk that is lost, an assembly that is  *)
(* given up for its age or its place, or a message whose last chunk is handled    *)
(* once more.  It is over when a message begins an assembly of its own, that is   *)
(* while none stands that would take it in.                                       *)

TakesIn(a, f) == a.count = f.count /\ (1 \notin DOMAIN a.frames \/ a.frames[1] = f.body)

GivenUp(pending2) ==
  {k \in MessageKeys : /\ Assembly(brPending, k) # NoAssembly
                       /\ Assembly(pending2, k) = NoAssembly}

Excused(f) ==
  f.key \in brTroubled /\ f.body \in Fragments /\ TakesIn(Assembly(brPending, f.key), f)

BeginsOwn(f) == f.index = 1 /\ ~Excused(f) /\ (f.count > 1 \/ f.body \in Pages)

Disturbs(keys) ==
  /\ brTroubled' = brTroubled \cup keys
  /\ brWhole' = [k \in MessageKeys |-> IF k \in keys THEN <<>> ELSE brWhole[k]]

Records(f, pending2) ==
  LET gone == GivenUp(pending2) \ {f.key}
  IN  /\ brTroubled' = (IF BeginsOwn(f) THEN brTroubled \ {f.key} ELSE brTroubled) \cup gone
      /\ brWhole' = [k \in MessageKeys |->
           IF k \in gone THEN <<>>
           ELSE IF k # f.key THEN brWhole[k]
           ELSE IF f.index = 1 THEN IF Excused(f) THEN <<>> ELSE <<f.body>>
           ELSE IF Len(brWhole[k]) = f.index - 1 THEN Append(brWhole[k], f.body) ELSE <<>>]

-------------------------------------------------------------------------------
(* The device.                                                               *)

\* What it may send next for a key.
NextChunks(k) ==
  LET m == brSending[k]
  IN  {f \in [key : {k}, index : {m.sent + 1}, count : Lengths[k], body : Bodies] :
         m.sent > 0 => f.count = m.count /\ (m.pages => f.body \in Pages)}

Sent(f) ==
  brSending' = [brSending EXCEPT ![f.key] =
    IF f.index = f.count THEN Between
    ELSE [count |-> f.count, sent |-> f.index,
          pages |-> IF f.index = 1 THEN f.body \in Pages ELSE @.pages]]

\* The chunk does not arrive or cannot be decoded.
ChunkLost(k) ==
  /\ brFrame = NoChunk
  /\ \E f \in NextChunks(k) : Sent(f)
  /\ Disturbs({k})
  /\ UNCHANGED <<brFrame, brPending, brObserved>>

\* _REASSEMBLY_TIMEOUT_SEC without a chunk for the assemblies that wait longest.  The
\* code drops them when it next looks; before that nothing else reads them.
Expires ==
  /\ brFrame = NoChunk
  /\ \E n \in DOMAIN brPending.order :
       LET expired == {brPending.order[i] : i \in 1..n}
           later == [order |-> SubSeq(brPending.order, n + 1, Len(brPending.order)),
                     held |-> [k \in MessageKeys |-> IF k \in expired THEN NoAssembly
                                                     ELSE brPending.held[k]]]
       IN  brPending' = later /\ Disturbs(expired)
  /\ UNCHANGED <<brSending, brFrame, brObserved>>

Reconnects_Kept ==
  /\ brFrame = NoChunk
  /\ brSending' = [k \in MessageKeys |-> Between]
  /\ brWhole' = [k \in MessageKeys |-> <<>>] /\ brTroubled' = {}
  /\ UNCHANGED <<brFrame, brPending, brObserved>>

\* The session is torn down, which has waited for the FIFO: its assemblies are
\* cleared (_clear_frame_assemblies), and the device begins anew with the next.
Reconnects ==
  /\ brFrame = NoChunk
  /\ brPending' = NothingPending
  /\ brSending' = [k \in MessageKeys |-> Between]
  /\ brWhole' = [k \in MessageKeys |-> <<>>] /\ brTroubled' = {}
  /\ UNCHANGED <<brFrame, brObserved>>

-------------------------------------------------------------------------------
(* One notification after another.                                           *)

\* A chunk arrives; its delivery runs up to the sink.
ChunkHandled(k) ==
  /\ brFrame = NoChunk
  /\ \E f \in NextChunks(k) :
       LET after == Handled(brPending, f)
       IN  /\ Sent(f)
           /\ brFrame' = [key |-> f.key, index |-> f.index, count |-> f.count, body |-> f.body,
                          at |-> "sink", again |-> FALSE]
           /\ brPending' = after.pending /\ brObserved' = after.observed
           /\ Records(f, after.pending)

\* The delivery task is cancelled in the sink.  (Before it has run, that changes
\* nothing here.)
DeliveryLost ==
  /\ brFrame.at = "sink"
  /\ brFrame' = [brFrame EXCEPT !.at = "lost"]
  /\ UNCHANGED <<brSending, brPending, brObserved, history>>

\* The drain begins again with the notification it still has.
HandledAgain ==
  /\ brFrame.at = "lost"
  /\ LET after == Handled(brPending, brFrame)
     IN  /\ brPending' = after.pending /\ brObserved' = after.observed
         /\ LET gone == GivenUp(after.pending) \ {brFrame.key}
                last == IF brFrame.index = brFrame.count THEN {brFrame.key} ELSE {}
            IN  /\ brTroubled' = brTroubled \cup gone \cup last
                /\ brWhole' = [k \in MessageKeys |-> IF k \in gone THEN <<>> ELSE brWhole[k]]
  /\ brFrame' = [brFrame EXCEPT !.at = "sink", !.again = TRUE]
  /\ UNCHANGED brSending

\* The sink has taken the observation, after any number of attempts.
Delivered ==
  /\ brFrame.at = "sink"
  /\ brFrame' = NoChunk /\ brObserved' = <<>>
  /\ brWhole' = [brWhole EXCEPT ![brFrame.key] =
                   IF brFrame.index = brFrame.count THEN <<>> ELSE @]
  /\ UNCHANGED <<brSending, brPending, brTroubled>>

BrNext ==
  \/ \E k \in MessageKeys : ChunkLost(k) \/ ChunkHandled(k)
  \/ Expires \/ Reconnects \/ DeliveryLost \/ HandledAgain \/ Delivered

BrSpec == BrInit /\ [][BrNext]_brVars

-------------------------------------------------------------------------------
(* Properties.                                                               *)

\* What the sink should hold with the chunk in flight, if nothing came between: a
\* page itself, at the last fragment the whole text, before it a mere fragment.
Undisturbed == brFrame # NoChunk /\ Len(brWhole[brFrame.key]) = brFrame.index
Expected ==
  LET bodies == brWhole[brFrame.key]
  IN  IF bodies[1] \in Pages THEN <<brFrame.body>>
      ELSE IF brFrame.index = brFrame.count THEN bodies ELSE <<>>

\* A message all of whose chunks are handled is handed on, exactly with its own
\* chunks and exactly at its last one, whatever an earlier connection left behind,
\* came between under another key, or was handled twice on the way.  Excepted is one
\* that is given up for its age or its place or handled again at its end, and, on the
\* same connection, one that finds what such trouble has left of its key: chunks
\* without a first one or with the same first one.
MessagesAreWhole ==
  Undisturbed /\ (brFrame.again => brFrame.index < brFrame.count)
    => brObserved = Expected

\* The sink gets an accepted message also when the delivery that had it was
\* cancelled (ble_transport.py:252-254 and 2321: lossless).
AcceptedReachesSink ==
  Undisturbed /\ brFrame.at = "sink" => brObserved = Expected
=============================================================================
