-------------------------- MODULE PacketRepository --------------------------
(***************************************************************************)
(* The bounded in-memory packet store of the server: a ring of packets in  *)
(* the order they were added and an index by packet id, both guarded by    *)
(* one reentrant lock.                                                     *)
(*                                                                         *)
(* A packet is identified with its id: the capture client mints a random   *)
(* id per packet and publishes it once, so Add is only called with an id   *)
(* the store has not seen, while a session file may repeat any id.         *)
(* importAll holds the lock from its first to its last iteration; its      *)
(* loop is modelled one iteration a step, under that lock.                 *)
(***************************************************************************)
EXTENDS Integers, Sequences, SequencesExt, Subsequences

CONSTANTS
  Packet,          \* packets, one per id
  NoPacket,        \* a null entry, or one without an id, of a session file
  Run,             \* run ids
  RunOf,           \* the run each packet belongs to
  RingBufferSize,  \* configured size of the ring, any integer
  MaxFile          \* bound on the length of a session file

ASSUME RingAssumption ==
  /\ RingBufferSize \in Int
  /\ NoPacket \notin Packet
  /\ RunOf \in [Packet -> Run]
  /\ MaxFile \in Nat

VARIABLES
  ring,       \* the packets kept, oldest first
  index,      \* the ids that get() finds
  importing,  \* whether importAll holds the lock
  file,       \* the file being loaded, or the last one loaded if nothing
              \* was added or cleared since
  pos,        \* the next entry of file that importAll looks at
  added,      \* entries of file importAll has added
  known,      \* history: ids published or loaded so far
  before,     \* history: the ring when the lock was taken by importAll
  again       \* history: this load repeats the last one

vars == <<ring, index, importing, file, pos, added, known, before, again>>

Capacity == IF RingBufferSize < 1 THEN 1 ELSE RingBufferSize

File == BoundedSeq(Packet \cup {NoPacket}, MaxFile)

Init ==
  /\ ring = <<>> /\ index = {} /\ known = {}
  /\ importing = FALSE /\ file = <<>> /\ pos = 1 /\ added = 0
  /\ before = <<>> /\ again = FALSE

-----------------------------------------------------------------------------
\* Mutant: the loop stops one packet too late (>= for >).
Overflow_late(s) == IF Len(s) > Capacity + 1 THEN Len(s) - Capacity ELSE 0

\* How many of the oldest packets of s the eviction loop removes.
Overflow(s) == IF Len(s) > Capacity THEN Len(s) - Capacity ELSE 0

\* Mutant: evicted packets stay in the index.
Insert_staleIndex(p) ==
  LET grown == Append(ring, p)
  IN  /\ ring' = SubSeq(grown, Overflow(grown) + 1, Len(grown))
      /\ index' = index \cup {p}

\* Mutant: the newest packets are evicted.
Insert_evictsNewest(p) ==
  LET grown == Append(ring, p)
      kept  == SubSeq(grown, 1, Len(grown) - Overflow(grown))
  IN  ring' = kept /\ index' = Range(kept)

\* The body of add(): append, index, evict the oldest down to the capacity.
Insert(p) ==
  LET grown   == Append(ring, p)
      evicted == Overflow(grown)
  IN  /\ ring' = SubSeq(grown, evicted + 1, Len(grown))
      /\ index' = (index \cup {p}) \ Range(SubSeq(grown, 1, evicted))

\* add(), called by the bus with a freshly captured packet.
Add(p) ==
  /\ ~importing
  /\ p \notin known
  /\ Insert(p)
  /\ known' = known \cup {p}
  /\ file' = <<>> /\ pos' = 1
  /\ UNCHANGED <<importing, added, before, again>>

\* importAll() takes the lock.
BeginImport(f) ==
  /\ ~importing
  /\ importing' = TRUE
  /\ file' = f /\ pos' = 1 /\ added' = 0
  /\ before' = ring
  /\ again' = (f = file)
  /\ known' = known \cup (Range(f) \ {NoPacket})
  /\ UNCHANGED <<ring, index>>

\* Mutant: importAll() does not look the id up.
Skipped_onlyNull(p) == p = NoPacket

\* The entries importAll() passes over.
Skipped(p) == p = NoPacket \/ p \in index

\* One iteration of importAll()'s loop.
ImportNext ==
  /\ importing
  /\ pos <= Len(file)
  /\ pos' = pos + 1
  /\ IF Skipped(file[pos])
       THEN UNCHANGED <<ring, index, added>>
       ELSE Insert(file[pos]) /\ added' = added + 1
  /\ UNCHANGED <<importing, file, known, before, again>>

\* importAll() returns added and releases the lock; its locals are gone.
EndImport ==
  /\ importing
  /\ pos > Len(file)
  /\ importing' = FALSE
  /\ added' = 0 /\ before' = <<>> /\ again' = FALSE
  /\ UNCHANGED <<ring, index, file, pos, known>>

Clear ==
  /\ ~importing
  /\ ring' = <<>> /\ index' = {}
  /\ file' = <<>> /\ pos' = 1
  /\ UNCHANGED <<importing, added, known, before, again>>

Next ==
  \/ \E p \in Packet : Add(p)
  \/ \E f \in File : BeginImport(f)
  \/ ImportNext
  \/ EndImport
  \/ Clear

Spec == Init /\ [][Next]_vars

-----------------------------------------------------------------------------
\* The packets recent(runId, limit) selects from; NoPacket stands for the
\* null runId that selects every run.
OfRun(r) == Only(ring, {p \in Packet : r = NoPacket \/ RunOf[p] = r})

\* Mutant: the oldest packets are returned instead of the newest.
Recent_oldest(r, limit) ==
  LET n == IF limit <= 0 \/ limit > Len(OfRun(r)) THEN Len(OfRun(r)) ELSE limit
  IN  SubSeq(OfRun(r), 1, n)

\* recent(runId, limit): the newest limit packets of the run, in ring order;
\* all of them when limit is zero or negative.
Recent(r, limit) ==
  LET n        == IF limit < 0 THEN 0 ELSE limit
      snapshot == OfRun(r)
  IN  IF n = 0 \/ n >= Len(snapshot)
        THEN snapshot
        ELSE SubSeq(snapshot, Len(snapshot) - n + 1, Len(snapshot))

-----------------------------------------------------------------------------
\* Every variable has its type (the fields ring and index and the locals of
\* importAll).
TypeOK ==
  /\ ring \in Seq(Packet)
  /\ index \subseteq Packet
  /\ importing \in BOOLEAN
  /\ file \in Seq(Packet \cup {NoPacket})
  /\ pos \in 1 .. (Len(file) + 1)
  /\ added \in Nat
  /\ known \subseteq Packet
  /\ before \in Seq(Packet)
  /\ again \in BOOLEAN

\* The two representations agree at every step: get(id) finds exactly the
\* packets a snapshot lists, whatever was added, evicted, loaded or cleared.
IndexMatchesRing == index = Range(ring)

\* No packet is listed twice, even after loading files that repeat ids,
\* nor is the ring ever longer than its capacity.
RingIsASetOfRecentPackets ==
  /\ IsInjective(ring)
  /\ Len(ring) <= Capacity

\* The packets among the first n entries of the file that were not in the
\* ring when the load began.
News(n) == {file[i] : i \in 1..n} \ ({NoPacket} \cup Range(before))

\* The file has its first p before its first q.
Precedes(p, q) ==
  \E i \in DOMAIN file : file[i] = p /\ \A j \in 1..i : file[j] # q

\* A load that fits adds to what is there: the old packets stay in place,
\* the new ones follow in file order, each once, and the count reported to the
\* user is the number of packets that appeared.  A load that does not fit
\* leaves the ring full, and the last packet of the file is always in it.
LoadAddsNews ==
  importing /\ pos > Len(file) =>
    LET news     == News(Len(file))
        appended == SubSeq(ring, Len(before) + 1, Len(ring))
    IN  IF Len(before) + Cardinality(news) <= Capacity
          THEN /\ ring = before \o appended /\ Range(appended) = news
               /\ Len(appended) = Cardinality(news) /\ added = Cardinality(news)
               /\ \A k, m \in DOMAIN appended : k < m => Precedes(appended[k], appended[m])
          ELSE /\ Len(ring) = Capacity
               /\ file[Len(file)] # NoPacket => file[Len(file)] \in Range(ring)

\* Loading the same file twice changes nothing (README.md:209), unless the ring
\* is full: then the first load may have evicted packets of the file itself,
\* and the second inserts them again and evicts others.
LoadTwiceChangesNothing ==
  importing /\ again /\ Len(before) < Capacity => ring = before

\* Loading adds and never replaces, the first time and when repeated: a load
\* yields exactly the old packets and the news of the file, or a full ring,
\* and repeating a load leaves a ring that is not full as it was.
LoadAdds == LoadAddsNews /\ LoadTwiceChangesNothing

\* A limited view has no gaps: recent() lists packets of the run in ring
\* order, never more than a positive limit, and leaves a packet of the run
\* out only when limit newer ones of that run are listed; a limit of zero or
\* below, which a client may ask for, is none.
RecentHasNoGaps ==
  \A r \in Run \cup {NoPacket}, limit \in -1 .. Capacity + 1 :
    LET view  == Recent(r, limit)
        At(p) == CHOOSE i \in DOMAIN ring : ring[i] = p
    IN  /\ \A q \in Range(view) : r = NoPacket \/ RunOf[q] = r
        /\ \A k, m \in DOMAIN view : k < m => At(view[k]) < At(view[m])
        /\ limit > 0 => Len(view) <= limit
        /\ \A p \in Range(ring) \ Range(view) :
             r = NoPacket \/ RunOf[p] = r =>
               limit > 0 /\ Len(view) = limit /\ \A q \in Range(view) : At(p) < At(q)

\* Readers see a packet history: while importAll holds the lock nobody can
\* read the ring, so its loop counts as one load.
History ==
  INSTANCE PacketHistory
    WITH kept <- IF importing THEN before ELSE ring, MaxLoad <- MaxFile

IsAPacketHistory == History!Spec
=============================================================================
