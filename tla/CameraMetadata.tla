--------------------------- MODULE CameraMetadata ---------------------------
(* The owner object of a camera_metadata_t buffer                              *)
(* (src/libmocha/camera/CameraMetadata.cpp): who owns which buffer, the lock   *)
(* that keeps a buffer in place for its reader, growth, and the parcel layout. *)
(* A buffer is its entries, [tag, val], and its capacity; its data part grows  *)
(* by the rule of its entries.  Buffer 0 is NULL.                              *)
EXTENDS Integers, Sequences, FiniteSets, SequencesExt

CONSTANTS Objects,     \* CameraMetadata objects
          Tags,        \* metadata tags
          Vals,        \* values of an entry
          MaxBufs,     \* bound on the buffers that exist at once
          MaxOutside,  \* bound on the buffers that belong to no object
          MaxEntries,  \* bound on the entries of a buffer
          Alignment    \* get_camera_metadata_alignment

VARIABLES buf,     \* per object: mBuffer
          locked,  \* per object: mLocked
          heap,    \* per buffer: [used, ents, cap]
          raws,    \* buffers that a client owns, after release
          lost,    \* buffers that nobody refers to any more
          reader,  \* ghost, per object: [buf, ents] as getAndLock returned it
          outcome  \* ghost: "ok", "refused" or "overrun" as the last operation ended

metaVars == <<buf, locked, heap, raws, lost, reader, outcome>>

Bufs == 1 .. MaxBufs
NoBuffer == [used |-> FALSE, ents |-> <<>>, cap |-> 0]
NoParcel == [size |-> 0, blob |-> FALSE, offset |-> 0, ents |-> <<>>]
NoReader == [buf |-> 0, ents |-> <<>>]

MetaInit ==
  /\ buf = [m \in Objects |-> 0] /\ locked = [m \in Objects |-> FALSE]
  /\ heap = [b \in Bufs |-> NoBuffer] /\ raws = {} /\ lost = {}
  /\ reader = [m \in Objects |-> NoReader] /\ outcome = "ok"

\* camera_metadata.c: the entries of a buffer, and the first one with a tag.
Ents(b) == IF b = 0 THEN <<>> ELSE heap[b].ents
HasTag(es, t) == \E i \in DOMAIN es : es[i].tag = t
FirstOf(es, t) == CHOOSE i \in DOMAIN es : es[i].tag = t /\ \A j \in 1 .. i - 1 : es[j].tag # t
Unused == {b \in Bufs : ~heap[b].used}
\* What an allocation may return: NULL (as long as another buffer may get lost), or a new buffer.
Allocated ==
  (IF Cardinality(raws \cup lost) < MaxOutside THEN {0} ELSE {}) \cup {b \in Unused : \A c \in Unused : b <= c}

\* What becomes of an object's buffer that clear() frees.
Freed(h, b) == IF b = 0 THEN h ELSE [h EXCEPT ![b] = NoBuffer]
Made(h, b, es, cap) == [h EXCEPT ![b] = [used |-> TRUE, ents |-> es, cap |-> cap]]

\* getAndLock and unlock.
getAndLock(m) ==
  /\ ~locked[m]
  /\ locked' = [locked EXCEPT ![m] = TRUE]
  /\ reader' = [reader EXCEPT ![m] = [buf |-> buf[m], ents |-> Ents(buf[m])]]
  /\ UNCHANGED <<buf, heap, raws, lost, outcome>>
unlock(m, p) ==
  /\ locked[m] /\ p = buf[m]
  /\ locked' = [locked EXCEPT ![m] = FALSE]
  /\ reader' = [reader EXCEPT ![m] = NoReader]
  /\ UNCHANGED <<buf, heap, raws, lost, outcome>>

\* Mutant: the lock is not looked at.
WritableAlways(m) == TRUE

\* Every operation that changes the object gives up when it is locked.
Writable(m) == ~locked[m]

release(m) ==
  /\ Writable(m) /\ Cardinality(raws \cup lost) < MaxOutside
  /\ raws' = raws \cup ({buf[m]} \ {0})
  /\ buf' = [buf EXCEPT ![m] = 0]
  /\ UNCHANGED <<locked, heap, lost, reader, outcome>>

clear(m) ==
  /\ Writable(m)
  /\ heap' = Freed(heap, buf[m])
  /\ buf' = [buf EXCEPT ![m] = 0]
  /\ UNCHANGED <<locked, raws, lost, reader, outcome>>

\* acquire(buffer): the caller gives the buffer up, also when the object is locked.
acquire(m, b) ==
  /\ b \in raws /\ raws' = raws \ {b}
  /\ IF Writable(m)
     THEN /\ heap' = Freed(heap, buf[m])
          /\ buf' = [buf EXCEPT ![m] = b]
          /\ UNCHANGED lost
     ELSE lost' = lost \cup {b} /\ UNCHANGED <<heap, buf>>
  /\ UNCHANGED <<locked, reader, outcome>>

\* acquire(other): a locked other releases NULL, and the object is cleared all the same.
TakenFrom(m, o) ==
  IF locked[o] THEN [buf EXCEPT ![m] = 0] ELSE [[buf EXCEPT ![o] = 0] EXCEPT ![m] = buf[o]]
acquireOther(m, o) ==
  /\ Writable(m)
  /\ heap' = IF m = o THEN heap ELSE Freed(heap, buf[m])
  /\ buf' = TakenFrom(m, o)
  /\ UNCHANGED <<locked, raws, lost, reader, outcome>>

\* The assignment clones, frees what there was and keeps the clone (NULL without memory).
assign(m, o) ==
  /\ Writable(m) /\ buf[m] # buf[o]
  /\ IF buf[o] = 0 THEN heap' = Freed(heap, buf[m]) /\ buf' = [buf EXCEPT ![m] = 0]
     ELSE \E n \in Allocated :
            /\ heap' = IF n = 0 THEN Freed(heap, buf[m])
                       ELSE Made(Freed(heap, buf[m]), n, Ents(buf[o]), Len(Ents(buf[o])))
            /\ buf' = [buf EXCEPT ![m] = n]
  /\ UNCHANGED <<locked, raws, lost, reader, outcome>>

swap(m, o) ==
  /\ Writable(m) /\ Writable(o)
  /\ buf' = [buf EXCEPT ![m] = buf[o], ![o] = buf[m]]
  /\ UNCHANGED <<locked, heap, raws, lost, reader, outcome>>

----------------------------------------------------------------------------
\* resizeIfNeeded: the capacity that extra entries need, doubled when it has to grow.
Needs(count, extra, cap) == count + extra > cap
NewCap(count, extra, cap) == IF Needs(count, extra, cap) THEN 2 * (count + extra) ELSE cap

\* What resizeIfNeeded leaves: [ok, buf, heap, lost]; a failed allocation loses the old one.
Resized(m, extra) ==
  LET b == buf[m] IN
  IF b = 0
  THEN {[ok |-> n # 0, buf |-> n, lost |-> {},
         heap |-> IF n = 0 THEN heap ELSE Made(heap, n, <<>>, 2 * extra)] : n \in Allocated}
  ELSE IF ~Needs(Len(Ents(b)), extra, heap[b].cap)
  THEN {[ok |-> TRUE, buf |-> b, lost |-> {}, heap |-> heap]}
  ELSE {[ok |-> n # 0, buf |-> n, lost |-> IF n = 0 THEN {b} ELSE {},
         heap |-> IF n = 0 THEN heap
                  ELSE Made(Freed(heap, b), n, Ents(b), NewCap(Len(Ents(b)), extra, heap[b].cap))]
          : n \in Allocated}

\* add_camera_metadata_entry and append_camera_metadata refuse what has no room.
Added(h, b, es) ==
  IF Len(h[b].ents) + Len(es) > h[b].cap THEN h ELSE [h EXCEPT ![b].ents = @ \o es]

\* append: what resizeIfNeeded returned is not looked at; NULL is refused by the library.
append(m, o) ==
  /\ Writable(m) /\ m # o /\ buf[o] # 0
  /\ LET es == Ents(buf[o]) IN
     /\ Len(Ents(buf[m])) + Len(es) <= MaxEntries
     /\ \E r \in Resized(m, Len(es)) :
          /\ buf' = [buf EXCEPT ![m] = r.buf]
          /\ lost' = lost \cup r.lost
          /\ heap' = IF r.buf = 0 THEN r.heap ELSE Added(r.heap, r.buf, es)
          /\ outcome' = IF r.buf = 0 \/ Len(heap'[r.buf].ents) = Len(Ents(buf[m])) + Len(es)
                        THEN "ok" ELSE "refused"
  /\ UNCHANGED <<locked, raws, reader>>

\* update: room for one more is made first, also where the tag is there already.
update(m, t, v) ==
  /\ Writable(m)
  /\ Len(Ents(buf[m])) < MaxEntries \/ HasTag(Ents(buf[m]), t)
  /\ \E r \in Resized(m, 1) :
       /\ buf' = [buf EXCEPT ![m] = r.buf]
       /\ lost' = lost \cup r.lost
       /\ IF ~r.ok THEN heap' = r.heap /\ outcome' = "ok"
          ELSE LET es == r.heap[r.buf].ents IN
               /\ heap' = IF HasTag(es, t) THEN [r.heap EXCEPT ![r.buf].ents[FirstOf(es, t)].val = v]
                          ELSE Added(r.heap, r.buf, <<[tag |-> t, val |-> v]>>)
               /\ outcome' = IF HasTag(heap'[r.buf].ents, t) THEN "ok" ELSE "refused"
  /\ UNCHANGED <<locked, raws, reader>>

erase(m, t) ==
  /\ Writable(m) /\ HasTag(Ents(buf[m]), t)
  /\ heap' = [heap EXCEPT ![buf[m]].ents = RemoveAt(@, FirstOf(@, t))]
  /\ UNCHANGED <<buf, locked, raws, lost, reader, outcome>>

sort(m) ==
  /\ Writable(m) /\ buf[m] # 0
  /\ heap' = [heap EXCEPT ![buf[m]].ents = SortSeq(@, LAMBDA x, y : x.tag < y.tag)]
  /\ UNCHANGED <<buf, locked, raws, lost, reader, outcome>>

----------------------------------------------------------------------------
\* The size of a buffer: its entries and its header.
CompactSize(es) == Len(es) + 1

\* Mutant: an aligned address is moved too.
AlignedAlways(addr) == addr + Alignment - (addr % Alignment)

\* ALIGN_TO
Aligned(addr) == ((addr + Alignment - 1) \div Alignment) * Alignment

\* writeToParcel: the size, the blob with the data at an aligned address inside it, and the
\* offset.  A blob that could not be written is not reported: the offset's status is.
Written(m) ==
  IF buf[m] = 0 THEN {NoParcel}
  ELSE {[size |-> CompactSize(Ents(buf[m])) + Alignment, blob |-> TRUE, ents |-> Ents(buf[m]),
         offset |-> Aligned(addr) - addr] : addr \in 0 .. Alignment - 1}
       \cup {[NoParcel EXCEPT !.size = CompactSize(Ents(buf[m])) + Alignment]}

\* readFromParcel at the other end: whatever is wrong, the object stays as it was.
Readable(p) == p.size > Alignment /\ p.blob /\ p.offset < Alignment /\ Unused # {}
transfer(m, o) ==
  /\ Writable(o)
  /\ \E p \in Written(m) :
       IF p.size = 0
       THEN heap' = Freed(heap, buf[o]) /\ buf' = [buf EXCEPT ![o] = 0] /\ outcome' = "ok"
       ELSE IF Readable(p)
       THEN \E n \in Allocated \ {0} :
              /\ heap' = Made(Freed(heap, buf[o]), n, p.ents, Len(p.ents))
              /\ buf' = [buf EXCEPT ![o] = n]
              /\ outcome' = IF p.offset + CompactSize(p.ents) <= p.size THEN "ok" ELSE "overrun"
       ELSE outcome' = (IF p.blob /\ Unused # {} THEN "refused" ELSE "ok") /\ UNCHANGED <<heap, buf>>
  /\ UNCHANGED <<locked, raws, lost, reader>>

MetaNext ==
  \E m \in Objects :
    \/ getAndLock(m) \/ unlock(m, reader[m].buf) \/ release(m) \/ clear(m) \/ sort(m)
    \/ \E b \in raws : acquire(m, b)
    \/ \E o \in Objects : acquireOther(m, o) \/ assign(m, o) \/ swap(m, o) \/ append(m, o) \/ transfer(m, o)
    \/ \E t \in Tags : erase(m, t) \/ \E v \in Vals : update(m, t, v)

----------------------------------------------------------------------------
\* Every buffer has one owner: an object, a client that it was released to, or nobody; and
\* no owner has a freed one, through every mix of release, acquire, assignment, swap,
\* growth and failed allocation.
OneOwner ==
  /\ \A m, o \in Objects : m # o /\ buf[m] # 0 => buf[m] # buf[o]
  /\ \A b \in Bufs :
       /\ heap[b].used <=> b \in raws \cup lost \/ \E m \in Objects : buf[m] = b
       /\ b \in raws => b \notin lost /\ \A m \in Objects : buf[m] # b

\* What getAndLock returned stays as it was until unlock ("prevents the camera_metadata_t
\* pointer returned here from being accidentally invalidated by CameraMetadata operations").
LockedKept ==
  \A m \in Objects : locked[m] => buf[m] = reader[m].buf /\ Ents(buf[m]) = reader[m].ents

\* resizeIfNeeded made room: no update and no append is refused for lack of space; and a
\* parcel that was written whole is never refused at the other end, nor do its data leave
\* the blob, at whatever address the blob lies.
NothingRefused == outcome = "ok"

\* A buffer has one owner, stays as it is while it is locked, and takes what is put in.
MetadataSound == OneOwner /\ LockedKept /\ NothingRefused
=============================================================================
