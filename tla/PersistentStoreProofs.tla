------------------------ MODULE PersistentStoreProofs ------------------------
(***************************************************************************)
(* The write-ahead log, the checkpoint and recovery implement a durable    *)
(* log, for every number of commits, failures and crashes and for every    *)
(* backpressure threshold, with the checkpoint next to the WAL.            *)
(***************************************************************************)
EXTENDS PersistentStore, SequenceTheorems, NaturalsInduction, WellFoundedInduction, TLAPS

Rec == [seq : Ids, id : Ids]

-----------------------------------------------------------------------------
(* The invariant of the files: D is what a machine crash may leave of the    *)
(* WAL, C the checkpoints it may leave, L the log, X the open attempt and u  *)
(* the durable length.                                                       *)

\* A record is an acknowledged commit at its sequence, or the open attempt.
Shown(r, L, X) ==
    \/ r.seq \in 1 .. Len(L) /\ r.id = L[r.seq]
    \/ r.seq = Len(L) + 1 /\ r.id \in X

\* Sequences grow, and no place has two records.
Sorted(D) ==
    \A i, j \in Places : \A r \in D[i] \cap Rec, s \in D[j] \cap Rec :
        /\ i < j => r.seq < s.seq
        /\ i = j => r = s

\* Above a checkpoint sequences grow one by one.
NoGap(D, C) ==
    \A c \in C, j \in Places : \A s \in D[j] \cap Rec :
        s.seq > Len(c) + 1 => j > 1 /\ \A r \in D[j - 1] \cap Rec : r.seq = s.seq - 1

\* The durable prefix is in the checkpoint or stays in the WAL, with all that
\* comes before its end.
Reaches(D, u, j) == (\A i \in 1 .. j : D[i] \subseteq Rec) /\ \A r \in D[j] : r.seq = u
Durable(D, C, u) == \A c \in C : u > Len(c) => \E j \in Places : Reaches(D, u, j)

\* A checkpoint is a prefix of the log.
Prefixes(C, L) ==
    \A c \in C : c \in Seq(Ids) /\ Len(c) <= Len(L) /\ \A k \in 1 .. Len(c) : c[k] = L[k]

DiskType == [Places -> SUBSET (Rec \cup {Torn, None})]

Consistent(D, C, L, X, u) ==
    /\ D \in DiskType /\ Sorted(D) /\ NoGap(D, C) /\ Durable(D, C, u) /\ Prefixes(C, L)
    /\ \A i \in Places : \A r \in D[i] \cap Rec : Shown(r, L, X)

\* What a read returns is one of the contents a crash may leave.
Cached(D, w) ==
    /\ w \in Seq(Rec \cup {Torn}) /\ Len(w) <= MaxAttempts
    /\ \A i \in Places : IF i <= Len(w) THEN w[i] \in D[i] ELSE None \in D[i]

-----------------------------------------------------------------------------
(* The invariant of the operations *)

\* The first n records are those of acknowledged commits, up to the last one.
Settled(n) ==
    /\ n \in 0 .. Len(wal) /\ \A i \in 1 .. n : wal[i] \in Rec
    /\ \A i \in Places : \A r \in disk[i] \cap Rec :
          IF i <= n THEN r.seq <= Len(log) ELSE r.seq = Len(log) + 1
    /\ \A c \in ckptDisk : Len(c) < Len(log) => n >= 1 /\ wal[n].seq = Len(log)

Clean == \A i \in Places : i > Len(wal) => disk[i] = {None}

\* Between the operations of an unsealed writer
Steady ==
    /\ ~ writer.sealed /\ writer.write_pos = Len(wal) /\ writer.last_seq = Len(log)
    /\ Settled(Len(wal)) /\ Clean

\* Inside commit
Open ==
    /\ mem = Append(log, op.id) /\ doubt = {op.id} /\ op.id \in Ids
    /\ writer.last_seq = Len(log) /\ ~ writer.sealed
    /\ op.base \in Nat /\ writer.pending <= op.base /\ op.base < attempts

Up == op.pc \notin {"down", "replay", "trim_sync"}

Steps ==
    /\ Up => \A c \in ckptDisk : horizon <= Len(c)
    /\ At("idle") => mem = log /\ (~ writer.sealed => doubt = {} /\ Steady)
    /\ At("dir_sync") => mem = log /\ doubt = {} /\ Steady /\ ckpt = log
    /\ At("append") => Open /\ Steady /\ op.base = Len(wal)
    /\ At("sync") => /\ Open /\ Settled(op.base) /\ Clean /\ sync
                     /\ Len(wal) = op.base + 1 /\ writer.write_pos = Len(wal)
                     /\ wal[Len(wal)] = Record(Len(log) + 1, op.id)
    /\ At("rollback") => Open /\ Settled(op.base)
    /\ At("rollback_sync") => Open /\ Settled(op.base) /\ op.base = Len(wal)
    /\ At("truncate_sync") => /\ mem = log /\ doubt = {} /\ ~ writer.sealed /\ wal = <<>>
                              /\ \A c \in ckptDisk : Len(c) = Len(log)
    /\ At("replay") => disk = Contents(wal) /\ ckptDisk = {ckpt}
    /\ At("trim_sync") => Intact(wal, Len(wal)) /\ ckptDisk = {ckpt}

PCs == {"idle", "dir_sync", "append", "sync", "rollback", "rollback_sync", "truncate_sync",
        "down", "replay", "trim_sync"}

\* Types, and the bounds that every attempt adds at most one commit and record
Bounds ==
    /\ sync \in BOOLEAN /\ place = "wal_dir"
    /\ mem \in Seq(Ids) /\ log \in Seq(Ids)
    /\ op \in [pc : PCs, id : 0 .. MaxAttempts, base : 0 .. MaxAttempts]
    /\ writer \in [write_pos : 0 .. MaxAttempts, pending : 0 .. MaxAttempts,
                   last_seq : 0 .. MaxAttempts, sealed : BOOLEAN]
    /\ attempts \in 0 .. MaxAttempts /\ writer.write_pos <= attempts
    /\ writer.pending <= writer.write_pos
    /\ horizon \in 0 .. MaxAttempts
    /\ Len(log) <= attempts /\ (doubt # {} => Len(log) < attempts) /\ doubt \subseteq Ids
    /\ \A i \in Places : i > attempts => disk[i] = {None}
    /\ durable \in 0 .. Len(log) /\ ckpt \in ckptDisk

IInv ==
    /\ Bounds /\ Steps
    /\ Consistent(disk, ckptDisk, log, doubt, durable) /\ Cached(disk, wal)

-----------------------------------------------------------------------------
(* What the file operations keep *)

\* A log has a length.
LEMMA LenInNat == ASSUME NEW s \in Seq(Ids) PROVE Len(s) \in Nat
OBVIOUS

\* Records, torn records and absent ones are apart.
LEMMA Values ==
    /\ MaxAttempts \in Nat /\ Torn # None /\ Torn \notin Rec /\ None \notin Rec
    /\ \A s, id \in Ids : Record(s, id) \in Rec
    /\ \A r \in Rec : r.seq \in Nat /\ r.id \in Ids
BY PersistAssumption DEF Rec, Ids, Record

\* The record of an idle store.
LEMMA NoOpTyped ==
    NoOp.pc = "idle" /\ NoOp \in [pc : PCs, id : 0 .. MaxAttempts, base : 0 .. MaxAttempts]
BY Values DEF NoOp, PCs

\* A crash, a sync or a cut loses records; the invariant stays as long as none
\* of the durable ones is lost.
LEMMA ShrinkKeeps ==
    ASSUME NEW D, NEW E, NEW C, NEW B, NEW L, NEW X, NEW u,
           Consistent(D, C, L, X, u), E \in DiskType, B \subseteq C,
           \A i \in Places : E[i] \cap Rec \subseteq D[i],
           \A c \in B, j \in Places :
              u > Len(c) /\ Reaches(D, u, j) => \A i \in 1 .. j : E[i] \subseteq D[i]
    PROVE  Consistent(E, B, L, X, u)
<1>1. Sorted(E)
    BY DEF Consistent, Sorted
<1>2. NoGap(E, B)
  <2> SUFFICES ASSUME NEW c \in B, NEW j \in Places, NEW s \in E[j] \cap Rec, s.seq > Len(c) + 1
               PROVE  j > 1 /\ \A r \in E[j - 1] \cap Rec : r.seq = s.seq - 1
    BY DEF NoGap
  <2>1. s \in D[j] \cap Rec /\ c \in C
    OBVIOUS
  <2>2. j > 1 /\ \A r \in D[j - 1] \cap Rec : r.seq = s.seq - 1
    BY <2>1 DEF Consistent, NoGap
  <2>3. j - 1 \in Places
    BY <2>2, Values DEF Places
  <2>4. E[j - 1] \cap Rec \subseteq D[j - 1]
    BY <2>3
  <2> QED BY <2>2, <2>4
<1>3. Durable(E, B, u)
  <2> SUFFICES ASSUME NEW c \in B, u > Len(c) PROVE \E j \in Places : Reaches(E, u, j)
    BY DEF Durable
  <2>1. PICK j \in Places : Reaches(D, u, j)
    BY DEF Consistent, Durable
  <2>2. \A i \in 1 .. j : E[i] \subseteq D[i]
    BY <2>1
  <2>3. Reaches(E, u, j)
    BY <2>1, <2>2, Values DEF Reaches, Places
  <2> QED BY <2>3
<1>4. Prefixes(B, L)
    BY DEF Consistent, Prefixes
<1>5. \A i \in Places : \A r \in E[i] \cap Rec : Shown(r, L, X)
    BY DEF Consistent
<1> QED BY <1>1, <1>2, <1>3, <1>4, <1>5 DEF Consistent

\* File::sync_all
LEMMA SyncKeeps ==
    ASSUME NEW D, NEW C, NEW L, NEW X, NEW u, NEW w,
           Consistent(D, C, L, X, u), Cached(D, w)
    PROVE  Consistent(Contents(w), C, L, X, u) /\ Cached(Contents(w), w)
<1>1. \A i \in 1 .. Len(w) : w[i] \in Rec \cup {Torn}
    BY DEF Cached
<1>2. Contents(w) \in DiskType /\ Len(w) \in Nat
    BY <1>1, Values DEF Contents, DiskType, Cached, Places
<1>3. \A i \in Places : Contents(w)[i] = IF i <= Len(w) THEN {w[i]} ELSE {None}
    BY DEF Contents
<1>4. \A i \in Places : Contents(w)[i] \cap Rec \subseteq D[i]
  <2> SUFFICES ASSUME NEW i \in Places, NEW r \in Contents(w)[i] \cap Rec PROVE r \in D[i]
    OBVIOUS
  <2>1. i <= Len(w) /\ r = w[i]
    BY <1>3, Values, Zenon
  <2> QED BY <2>1 DEF Cached
<1>5. ASSUME NEW j \in Places, Reaches(D, u, j), NEW i \in 1 .. j
      PROVE  Contents(w)[i] \subseteq D[i]
  <2>1. i \in Places /\ None \notin D[i]
    BY <1>5, Values DEF Reaches, Places
  <2> QED BY <2>1, <1>3, Zenon DEF Cached
<1>6. Consistent(Contents(w), C, L, X, u)
    BY <1>2, <1>4, <1>5, ShrinkKeeps
<1>7. Cached(Contents(w), w)
    BY <1>3, Zenon DEF Cached
<1> QED BY <1>6, <1>7

\* File::set_len, above the durable records
Cut(E, w, n, C, L, X, u) ==
    /\ Consistent(E, C, L, X, u) /\ Cached(E, SubSeq(w, 1, n))
    /\ Len(SubSeq(w, 1, n)) = n /\ \A i \in 1 .. n : SubSeq(w, 1, n)[i] = w[i]

\* A cut may lose what is behind it, none of it durable.
LEMMA CutKeeps ==
    ASSUME NEW D, NEW C, NEW L, NEW X, NEW u, NEW w, NEW n \in 0 .. Len(w), NEW E,
           Consistent(D, C, L, X, u), Cached(D, w),
           E = [i \in Places |-> IF i > n THEN D[i] \cup {None} ELSE D[i]],
           \A c \in C, j \in Places : u > Len(c) /\ Reaches(D, u, j) => j <= n
    PROVE  Cut(E, w, n, C, L, X, u)
<1>1. w \in Seq(Rec \cup {Torn}) /\ Len(w) \in Nat /\ n \in Nat /\ n <= Len(w)
    BY DEF Cached
<1>2. E \in DiskType
    BY DEF Consistent, DiskType
<1>3. Consistent(E, C, L, X, u)
    BY <1>1, <1>2, Values, ShrinkKeeps, SMTT(30) DEF Places
<1>4. \A i \in 1 .. n : w[i] \in Rec \cup {Torn}
    BY <1>1
<1>5. /\ SubSeq(w, 1, n) \in Seq(Rec \cup {Torn}) /\ Len(SubSeq(w, 1, n)) = n
      /\ \A i \in 1 .. n : SubSeq(w, 1, n)[i] = w[i]
    BY <1>1, <1>4, SubSeqProperties
<1>6. Cached(E, SubSeq(w, 1, n))
    BY <1>1, <1>5, Values DEF Cached, Places
<1> QED BY <1>3, <1>5, <1>6 DEF Cut

\* A record of the open attempt, whole or torn, after a settled end of the file
Grown(E, w, r, C, L, X, u) ==
    /\ Consistent(E, C, L, X, u) /\ Cached(E, Append(w, r))
    /\ Len(Append(w, r)) = Len(w) + 1 /\ Append(w, r)[Len(w) + 1] = r
    /\ \A i \in 1 .. Len(w) : Append(w, r)[i] = w[i]
    /\ \A i \in Places : i > Len(w) + 1 => E[i] = {None}
    /\ \A i \in Places : \A s \in E[i] \cap Rec :
          IF i <= Len(w) THEN s.seq <= Len(L) ELSE s.seq = Len(L) + 1

\* A record that is being appended may survive, be torn or be absent.
LEMMA AppendKeeps ==
    ASSUME NEW D, NEW C, NEW L, NEW X, NEW u, NEW w, NEW r \in Rec \cup {Torn}, NEW E,
           Consistent(D, C, L, X, u), Cached(D, w), Len(w) < MaxAttempts, L \in Seq(Ids),
           u <= Len(L), u \in Nat,
           \A i \in Places : i > Len(w) => D[i] = {None},
           E = [D EXCEPT ![Len(w) + 1] = @ \cup {r, Torn}],
           r \in Rec => r.seq = Len(L) + 1 /\ r.id \in X,
           \A i \in Places : \A s \in D[i] \cap Rec : s.seq <= Len(L),
           \A c \in C : Len(c) < Len(L) => Len(w) >= 1 /\ w[Len(w)] \in Rec /\ w[Len(w)].seq = Len(L)
    PROVE  Grown(E, w, r, C, L, X, u)
<1> DEFINE n == Len(w) + 1
<1>1. w \in Seq(Rec \cup {Torn}) /\ Len(w) \in Nat /\ n \in Places /\ Len(L) \in Nat
    BY Values DEF Cached, Places
<1>2. E \in DiskType
  <2>1. D[n] \cup {r, Torn} \in SUBSET (Rec \cup {Torn, None})
    BY <1>1 DEF Consistent, DiskType
  <2> QED BY <1>1, <2>1 DEF Consistent, DiskType
<1>3. \A i \in Places : i # n => E[i] = D[i]
    BY <1>1 DEF Consistent, DiskType
<1>4. E[n] = {None, r, Torn}
    BY <1>1 DEF Consistent, DiskType
<1>5. \A s \in E[n] \cap Rec : s = r /\ r \in Rec
    BY <1>4, Values
<1> HIDE DEF n
<1>6. \A i \in Places : i > n => E[i] = {None}
    BY <1>1, <1>3, Values DEF n, Places
<1>7. \A i \in Places : \A s \in E[i] \cap Rec : i <= n /\ (i < n => s \in D[i] /\ s.seq <= Len(L))
                                                       /\ (i = n => s = r /\ s.seq = Len(L) + 1)
    BY <1>1, <1>3, <1>5, <1>6, Values DEF Places
<1>8. Sorted(E)
  <2> SUFFICES ASSUME NEW i \in Places, NEW j \in Places, NEW p \in E[i] \cap Rec,
                      NEW s \in E[j] \cap Rec
               PROVE  (i < j => p.seq < s.seq) /\ (i = j => p = s)
    BY DEF Sorted
  <2>0. p.seq \in Nat /\ s.seq \in Nat /\ i \in Nat /\ j \in Nat /\ n \in Nat
    BY Values, <1>1 DEF Places
  <2>1. CASE j < n
    <3>1. CASE i < n
        BY <2>1, <3>1, <1>7 DEF Consistent, Sorted
    <3> QED BY <2>0, <2>1, <3>1
  <2>2. CASE j = n
        BY <2>2, <1>7, <1>1, <2>0
  <2> QED BY <2>0, <2>1, <2>2, <1>7
<1>9. NoGap(E, C)
  <2> SUFFICES ASSUME NEW c \in C, NEW j \in Places, NEW s \in E[j] \cap Rec, s.seq > Len(c) + 1
               PROVE  j > 1 /\ \A p \in E[j - 1] \cap Rec : p.seq = s.seq - 1
    BY DEF NoGap
  <2>0. s.seq \in Nat /\ j \in Nat /\ n \in Nat /\ Len(c) \in Nat
    BY Values, <1>1 DEF Places, Consistent, Prefixes
  <2>1. CASE j < n
    <3>1. j > 1 /\ \A p \in D[j - 1] \cap Rec : p.seq = s.seq - 1
        BY <2>1, <1>7 DEF Consistent, NoGap
    <3>2. E[j - 1] = D[j - 1]
        BY <2>0, <2>1, <3>1, <1>1, <1>3, Values, SMTT(30) DEF Places
    <3> QED BY <3>1, <3>2
  <2>2. CASE j = n
    <3>1. s.seq = Len(L) + 1 /\ Len(c) < Len(L)
        BY <1>1, <1>7, <2>0, <2>2
    <3>2. Len(w) \in Places /\ w[Len(w)] \in Rec /\ w[Len(w)].seq = Len(L)
        BY <3>1, <1>1, Values DEF Places, n
    <3>3. E[Len(w)] = D[Len(w)] /\ w[Len(w)] \in D[Len(w)]
        BY <3>2, <1>1, <1>3 DEF n, Cached
    <3>4. \A p \in D[Len(w)] \cap Rec : p = w[Len(w)]
        BY <3>2, <3>3 DEF Consistent, Sorted
    <3>5. j - 1 = Len(w)
        BY <2>2, <1>1 DEF n
    <3> QED BY <3>1, <3>2, <3>3, <3>4, <3>5, <1>1, <2>2 DEF Places
  <2> QED BY <2>0, <2>1, <2>2, <1>7
<1>10. Durable(E, C, u)
  <2> SUFFICES ASSUME NEW c \in C, u > Len(c) PROVE \E j \in Places : Reaches(E, u, j)
    BY Zenon DEF Durable
  <2>1. PICK j \in Places : Reaches(D, u, j)
    BY DEF Consistent, Durable
  <2>2. \A i \in 1 .. j : i \in Places /\ D[i] \subseteq Rec
    BY <2>1, Values DEF Reaches, Places
  <2>3. \A i \in 1 .. j : i # n
    BY <2>2, <1>1, Values DEF n
  <2>4. \A i \in 1 .. j : E[i] = D[i]
    BY <2>2, <2>3, <1>3
  <2>5. Reaches(E, u, j)
    BY <2>1, <2>4, Values DEF Reaches, Places
  <2> QED BY <2>5
<1>11. \A i \in Places : \A s \in E[i] \cap Rec : Shown(s, L, X)
    BY <1>1, <1>7 DEF Consistent, Shown, Places
<1>12. Consistent(E, C, L, X, u)
    BY <1>2, <1>8, <1>9, <1>10, <1>11, Zenon DEF Consistent
<1>13. /\ Append(w, r) \in Seq(Rec \cup {Torn}) /\ Len(Append(w, r)) = n
       /\ Append(w, r)[n] = r /\ \A i \in 1 .. Len(w) : Append(w, r)[i] = w[i]
    BY <1>1, AppendProperties DEF n
<1>14. Cached(E, Append(w, r))
  <2> SUFFICES ASSUME NEW i \in Places
               PROVE  IF i <= n THEN Append(w, r)[i] \in E[i] ELSE None \in E[i]
    BY <1>1, <1>13, Values DEF Cached, n, Places
  <2>1. CASE i < n
    BY <2>1, <1>1, <1>3, <1>13 DEF Cached, n, Places
  <2>2. CASE i = n
    BY <2>2, <1>4, <1>13 DEF n
  <2>3. CASE i > n
    BY <2>3, <1>6, <1>1 DEF Places
  <2>4. i < n \/ i = n \/ i > n
    BY <1>1, Values DEF Places
  <2> QED BY <2>1, <2>2, <2>3, <2>4, Zenon
<1> QED BY <1>1, <1>6, <1>7, <1>12, <1>13, <1>14 DEF n, Places, Grown

-----------------------------------------------------------------------------
(* What the outcomes of an operation keep *)

\* An attempt starts.
LEMMA AttemptKeeps ==
    ASSUME NEW D, NEW C, NEW L, NEW X, NEW u, Consistent(D, C, L, {}, u)
    PROVE  Consistent(D, C, L, X, u)
BY DEF Consistent, Shown

\* It fails, and no record of it is left.
LEMMA FailKeeps ==
    ASSUME NEW D, NEW C, NEW L, NEW X, NEW u, Consistent(D, C, L, X, u),
           \A i \in Places : \A r \in D[i] \cap Rec : r.seq # Len(L) + 1
    PROVE  Consistent(D, C, L, {}, u)
BY DEF Consistent, Shown

\* It is acknowledged.
LEMMA AcknowledgeKeeps ==
    ASSUME NEW D, NEW C, NEW L \in Seq(Ids), NEW id \in Ids, NEW u, Consistent(D, C, L, {id}, u)
    PROVE  Consistent(D, C, Append(L, id), {}, u)
<1> DEFINE M == Append(L, id)
<1>1. /\ Len(L) \in Nat /\ Len(M) = Len(L) + 1 /\ M[Len(L) + 1] = id
      /\ \A k \in 1 .. Len(L) : M[k] = L[k]
    BY AppendProperties
<1> HIDE DEF M
<1>2. Prefixes(C, M)
  <2> SUFFICES ASSUME NEW c \in C
               PROVE  c \in Seq(Ids) /\ Len(c) <= Len(M) /\ \A k \in 1 .. Len(c) : c[k] = M[k]
    BY DEF Prefixes
  <2>1. c \in Seq(Ids) /\ Len(c) <= Len(L) /\ \A k \in 1 .. Len(c) : c[k] = L[k]
    BY DEF Consistent, Prefixes
  <2> QED BY <1>1, <2>1
<1>3. \A i \in Places : \A r \in D[i] \cap Rec : Shown(r, M, {})
    BY <1>1, Values DEF Consistent, Shown
<1>4. Consistent(D, C, M, {}, u)
    BY <1>2, <1>3 DEF Consistent
<1> QED BY <1>4 DEF M

\* A checkpoint of all of the log is written.
LEMMA CheckpointKeeps ==
    ASSUME NEW D, NEW C, NEW L \in Seq(Ids), NEW X, NEW u \in Nat, u <= Len(L),
           Consistent(D, C, L, X, u)
    PROVE  Consistent(D, C \cup {L}, L, X, u)
<1>1. NoGap(D, C \cup {L})
  <2>1. \A j \in Places : \A s \in D[j] \cap Rec : ~ (s.seq > Len(L) + 1)
    BY Values DEF Consistent, Shown
  <2> QED BY <2>1 DEF NoGap, Consistent
<1>2. Durable(D, C \cup {L}, u)
    BY DEF Durable, Consistent
<1>3. Prefixes(C \cup {L}, L)
    BY DEF Prefixes, Consistent
<1> QED BY <1>1, <1>2, <1>3 DEF Consistent

\* A settled WAL that was synced holds the end of the log.
LEMMA HardenKeeps ==
    ASSUME NEW C, NEW L \in Seq(Ids), NEW X, NEW u, NEW w,
           Cached(Contents(w), w), Consistent(Contents(w), C, L, X, u),
           \A i \in 1 .. Len(w) : w[i] \in Rec,
           \A c \in C : Len(c) < Len(L) => Len(w) >= 1 /\ w[Len(w)].seq = Len(L)
    PROVE  Consistent(Contents(w), C, L, X, Len(L))
<1>1. ASSUME NEW c \in C, Len(L) > Len(c) PROVE \E j \in Places : Reaches(Contents(w), Len(L), j)
  <2>1. Len(w) \in Places /\ w[Len(w)].seq = Len(L) /\ Len(w) \in Nat
    BY <1>1, Values DEF Cached, Places, Consistent, Prefixes
  <2>2. \A i \in 1 .. Len(w) : Contents(w)[i] = {w[i]}
    <3>1. \A i \in Places : Contents(w)[i] = IF i <= Len(w) THEN {w[i]} ELSE {None}
        BY DEF Contents
    <3>2. \A i \in 1 .. Len(w) : i \in Places /\ i <= Len(w)
        BY <2>1, Values DEF Places
    <3> QED BY <3>1, <3>2, Zenon
  <2>3. Reaches(Contents(w), Len(L), Len(w))
    BY <2>1, <2>2, Values DEF Reaches, Places
  <2> QED BY <2>1, <2>3
<1> QED BY <1>1 DEF Consistent, Durable

-----------------------------------------------------------------------------
(* What replay reads *)

\* A nonempty set of naturals has a least element.
LEMMA LeastExists ==
    ASSUME NEW S, S \subseteq Nat, S # {}
    PROVE  \E m \in S : \A d \in S : m <= d
<1>1. PICK m \in S : \A d \in S : ~ (<<d, m>> \in OpToRel(<, Nat))
    BY NatLessThanWellFounded, WFMin, Zenon
<1>2. \A x, y \in Nat : x < y => <<x, y>> \in OpToRel(<, Nat)
    BY DEF OpToRel
<1>3. \A d \in S : ~ (d < m)
    BY <1>1, <1>2, Zenon
<1> QED BY <1>3

\* A number at which a property turns from true to false
LEMMA LastBefore ==
    ASSUME NEW n \in Nat, NEW T, T \subseteq 1 .. n
    PROVE  \E k \in 0 .. n : k \notin T /\ (k < n => k + 1 \in T) /\ \A i \in T : i > k
<1>1. CASE T = {}
    BY <1>1
<1>2. CASE T # {}
  <2>0. T \subseteq Nat
    OBVIOUS
  <2>1. PICK m \in T : \A d \in T : m <= d
    BY <1>2, <2>0, LeastExists, Zenon
  <2>2. m - 1 \in 0 .. n /\ m - 1 \notin T /\ m - 1 + 1 = m
    BY <2>1
  <2> WITNESS m - 1 \in 0 .. n
  <2> QED BY <2>1, <2>2
<1> QED BY <1>1, <1>2

\* The valid prefix: records in order, as far as they go.
LEMMA ValidLenIs ==
    ASSUME NEW w, Len(w) \in Nat
    PROVE  /\ ValidLen(w) \in 0 .. Len(w) /\ Intact(w, ValidLen(w))
           /\ ValidLen(w) < Len(w) => ~ Intact(w, ValidLen(w) + 1)
<1> DEFINE T == {n \in 1 .. Len(w) : ~ Intact(w, n)}
<1>0. Intact(w, 0)
    BY DEF Intact
<1>1. PICK k \in 0 .. Len(w) : k \notin T /\ (k < Len(w) => k + 1 \in T)
    BY LastBefore, Zenon
<1>2. Intact(w, k)
    BY <1>0, <1>1
<1>3. k < Len(w) => ~ Intact(w, k + 1)
    BY <1>1
<1>4. \E n \in 0 .. Len(w) : Intact(w, n) /\ (n < Len(w) => ~ Intact(w, n + 1))
    BY <1>2, <1>3
<1> QED BY <1>4 DEF ValidLen

\* In a consistent file only a torn record ends the valid prefix.
LEMMA ValidRecords ==
    ASSUME NEW D, NEW w, D \in DiskType, Sorted(D), Cached(D, w), NEW n \in 0 .. Len(w)
    PROVE  Intact(w, n) <=> \A i \in 1 .. n : w[i] \in Rec
<1>0. /\ Len(w) \in Nat /\ \A i \in 1 .. Len(w) : i \in Places /\ w[i] \in Rec \cup {Torn}
      /\ \A i \in 1 .. Len(w) : w[i] \in D[i]
    BY Values DEF Cached, Places
<1>1. ASSUME Intact(w, n), NEW i \in 1 .. n PROVE w[i] \in Rec
    BY <1>0, <1>1 DEF Intact
<1>2. ASSUME \A i \in 1 .. n : w[i] \in Rec PROVE Intact(w, n)
  <2> SUFFICES ASSUME NEW i \in 1 .. n, i > 1 PROVE w[i].seq > w[i - 1].seq
    BY <1>2, Values DEF Intact
  <2>1. i - 1 \in 1 .. n /\ i - 1 < i
    OBVIOUS
  <2>2. w[i] \in D[i] \cap Rec /\ w[i - 1] \in D[i - 1] \cap Rec
    BY <1>0, <1>2, <2>1
  <2>3. w[i - 1].seq < w[i].seq
    BY <1>0, <2>1, <2>2 DEF Sorted
  <2> QED BY <2>2, <2>3, Values
<1> QED BY <1>1, <1>2

\* The records of the valid prefix grow, and those the checkpoint covers are
\* the first ones.
LEMMA ValidGrows ==
    ASSUME NEW D, NEW C, NEW L \in Seq(Ids), NEW X, NEW u, NEW w, NEW c \in C,
           Consistent(D, C, L, X, u), Cached(D, w)
    PROVE  /\ ValidLen(w) \in Nat /\ Skipped(w, c) \in 0 .. ValidLen(w)
           /\ \A i \in 1 .. ValidLen(w) : /\ i \in Places /\ w[i] \in D[i] \cap Rec
                                          /\ w[i].seq \in Nat /\ Shown(w[i], L, X)
           /\ \A i, j \in 1 .. ValidLen(w) : i < j => w[i].seq < w[j].seq
           /\ \A i \in 1 .. ValidLen(w) : w[i].seq <= Len(c) <=> i <= Skipped(w, c)
<1> DEFINE v == ValidLen(w)
<1>0. Len(w) \in Nat /\ Len(c) \in Nat /\ Len(w) <= MaxAttempts
    BY DEF Cached, Consistent, Prefixes
<1>1. v \in 0 .. Len(w) /\ Intact(w, v)
    BY <1>0, ValidLenIs, Zenon
<1>2. \A i \in 1 .. v : w[i] \in Rec
    BY <1>1, ValidRecords DEF Consistent
<1> HIDE DEF v
<1>3. \A i \in 1 .. v : i \in Places /\ i <= Len(w)
    BY <1>0, <1>1, Values DEF Places
<1>4. \A i \in 1 .. v : w[i] \in D[i] \cap Rec /\ w[i].seq \in Nat /\ Shown(w[i], L, X)
    BY <1>2, <1>3, Values, Zenon DEF Cached, Consistent
<1>5. \A i, j \in 1 .. v : i < j => w[i].seq < w[j].seq
    BY <1>3, <1>4 DEF Consistent, Sorted
<1> DEFINE T == {i \in 1 .. v : w[i].seq > Len(c)}
<1>6. v \in Nat /\ T \subseteq 1 .. v
    BY <1>0, <1>1
<1>7. PICK k \in 0 .. v : k \notin T /\ (k < v => k + 1 \in T) /\ \A i \in T : i > k
    BY <1>6, LastBefore, Zenon
<1>8. ASSUME NEW i \in 1 .. v PROVE w[i].seq <= Len(c) <=> i <= k
  <2>1. ASSUME i <= k PROVE w[i].seq <= Len(c)
    BY <2>1, <1>0, <1>4, <1>6, <1>7
  <2>2. ASSUME k < i PROVE w[i].seq > Len(c)
    <3>1. k + 1 \in T
        BY <2>2, <1>6, <1>7
    <3>2. CASE i = k + 1
        BY <3>1, <3>2
    <3>3. CASE k + 1 < i
        BY <3>1, <3>3, <1>0, <1>4, <1>5
    <3> QED BY <2>2, <3>2, <3>3, <1>7
  <2> QED BY <2>1, <2>2, <1>0, <1>4, <1>7
<1>9. \E n \in 0 .. v : \A i \in 1 .. v : w[i].seq <= Len(c) <=> i <= n
    BY <1>8
<1>10. /\ Skipped(w, c) \in 0 .. v
       /\ \A i \in 1 .. v : w[i].seq <= Len(c) <=> i <= Skipped(w, c)
    BY <1>9, Zenon DEF Skipped, v
<1> QED BY <1>3, <1>4, <1>5, <1>6, <1>10, Zenon DEF v

\* The records replay appends follow the checkpoint one by one.
Follows(w, c) ==
    /\ Len(Newer(w, c)) = ValidLen(w) - Skipped(w, c)
    /\ \A i \in 1 .. ValidLen(w) - Skipped(w, c) :
          /\ Newer(w, c)[i] = w[Skipped(w, c) + i]
          /\ w[Skipped(w, c) + i].seq = Len(c) + i

\* Replay appends to the checkpoint without a gap.
LEMMA Contiguous ==
    ASSUME NEW D, NEW C, NEW L \in Seq(Ids), NEW X, NEW u, NEW w, NEW c \in C,
           Consistent(D, C, L, X, u), Cached(D, w)
    PROVE  Follows(w, c)
<1> DEFINE v == ValidLen(w)
           k == Skipped(w, c)
<1>a. Len(c) \in Nat
    BY DEF Consistent, Prefixes
<1>0. v \in Nat /\ k \in 0 .. v /\ Len(c) \in Nat
    BY <1>a, ValidGrows, Zenon
<1>1. /\ \A i \in 1 .. v : i \in Places /\ w[i] \in D[i] \cap Rec /\ w[i].seq \in Nat
      /\ \A i, j \in 1 .. v : i < j => w[i].seq < w[j].seq
      /\ \A i \in 1 .. v : w[i].seq <= Len(c) <=> i <= k
    BY ValidGrows, Zenon
<1> HIDE DEF v, k
<1>2. /\ Len(SubSeq(w, k + 1, v)) = v - k
      /\ \A i \in 1 .. v - k : SubSeq(w, k + 1, v)[i] = w[k + i]
  <2>1. \A i \in k + 1 .. v : w[i] \in Rec
    BY <1>0, <1>1
  <2>2. /\ Len(SubSeq(w, k + 1, v)) = IF k + 1 <= v THEN v - (k + 1) + 1 ELSE 0
        /\ \A i \in 1 .. v - (k + 1) + 1 : SubSeq(w, k + 1, v)[i] = w[k + 1 + i - 1]
    BY <1>0, <2>1, SubSeqProperties
  <2> QED BY <1>0, <2>2
<1>3. \A i \in 1 .. v - k : w[k + i].seq = Len(c) + i
  <2> SUFFICES ASSUME NEW b \in 1 .. v - k, w[k + b].seq # Len(c) + b PROVE FALSE
    OBVIOUS
  <2> DEFINE T == {i \in 1 .. v - k : w[k + i].seq # Len(c) + i}
  <2>1. T \subseteq Nat /\ T # {}
    OBVIOUS
  <2>2. PICK m \in T : \A d \in T : m <= d
    BY <2>1, LeastExists, Zenon
  <2>3. m \in 1 .. v - k /\ w[k + m].seq # Len(c) + m /\ m \in Nat /\ k \in Nat
    BY <1>0, <2>2
  <2> HIDE DEF T
  <2>4. PICK q \in 1 .. v : q = k + m
    BY <1>0, <2>3
  <2>5. q > k /\ q \in Places /\ w[q] \in D[q] \cap Rec /\ w[q].seq \in Nat
            /\ w[q].seq # Len(c) + m
    BY <1>0, <1>1, <2>3, <2>4
  <2>6. w[q].seq > Len(c)
    BY <1>0, <1>1, <2>5
  <2>7. PICK p \in Int : p = q - 1
    BY <2>4
  <2>8. w[q].seq > Len(c) + 1 => q > 1 /\ \A r \in D[p] \cap Rec : r.seq = w[q].seq - 1
    BY <2>5, <2>7 DEF Consistent, NoGap
  <2>9. CASE m = 1
    <3>1. w[q].seq > Len(c) + 1 /\ p = k
        BY <1>0, <2>3, <2>4, <2>5, <2>6, <2>7, <2>9, SMTT(30)
    <3>2. p \in 1 .. v
        BY <1>0, <2>8, <2>4, <2>7, <3>1, SMTT(30)
    <3>3. w[p].seq = w[q].seq - 1 /\ w[p].seq <= Len(c) /\ w[p].seq \in Nat
        BY <1>0, <1>1, <2>8, <3>1, <3>2
    <3> QED BY <1>0, <2>5, <3>1, <3>3
  <2>10. CASE m > 1
    <3>1. PICK l \in 1 .. v - k : l = m - 1
        BY <1>0, <2>3, <2>10
    <3>2. l \notin T
        BY <2>2, <2>3, <3>1
    <3>3. p = k + l /\ p \in 1 .. v /\ p < q
        BY <1>0, <2>3, <2>4, <2>7, <2>10, <3>1, SMTT(30)
    <3>4. w[p].seq = Len(c) + l
        BY <3>1, <3>2, <3>3, Zenon DEF T
    <3>5. w[p].seq < w[q].seq
        BY <1>1, <3>3, Zenon
    <3>6. w[q].seq > Len(c) + 1
        BY <1>0, <2>3, <2>5, <2>10, <3>1, <3>4, <3>5, SMTT(30)
    <3>7. w[p].seq = w[q].seq - 1
        BY <1>1, <2>8, <3>3, <3>6, Zenon
    <3>8. l \in Int /\ l + 1 = m
        BY <2>3, <3>1
    <3>9. w[q].seq = (Len(c) + l) + 1
        BY <2>5, <3>4, <3>7, SMTT(30)
    <3>10. w[q].seq = Len(c) + (l + 1)
        BY <1>0, <3>8, <3>9
    <3> QED BY <2>5, <3>8, <3>10, Zenon
  <2> QED BY <2>3, <2>9, <2>10
<1> QED BY <1>2, <1>3, Zenon DEF v, k, Newer, Follows

\* A durable record is in the valid prefix.
LEMMA ReachValid ==
    ASSUME NEW D, NEW w, NEW u, NEW j \in Places,
           D \in DiskType, Sorted(D), Cached(D, w), Reaches(D, u, j)
    PROVE  j \in 1 .. ValidLen(w) /\ w[j].seq = u
<1> DEFINE v == ValidLen(w)
<1>1. Len(w) \in Nat /\ v \in 0 .. Len(w) /\ (v < Len(w) => ~ Intact(w, v + 1))
    BY ValidLenIs DEF Cached
<1> HIDE DEF v
<1>2. \A i \in 1 .. j : i \in Places /\ D[i] \subseteq Rec
    BY Values DEF Reaches, Places
<1>3. \A i \in 1 .. j : i <= Len(w) /\ w[i] \in D[i] /\ w[i] \in Rec
    BY <1>2, Values DEF Cached
<1>4. j \in Nat /\ j >= 1 /\ j <= Len(w)
    BY <1>3, Values DEF Places
<1>5. j <= v
  <2> SUFFICES ASSUME j > v PROVE FALSE
    BY <1>1, <1>4
  <2>1. v + 1 \in 0 .. Len(w) /\ v < Len(w) /\ \A i \in 1 .. v + 1 : w[i] \in Rec
    BY <1>1, <1>3, <1>4
  <2>2. Intact(w, v + 1)
    BY <2>1, ValidRecords, Zenon
  <2> QED BY <1>1, <2>1, <2>2
<1> QED BY <1>1, <1>3, <1>4, <1>5 DEF Reaches, v

\* The store that opens: a prefix of the log with all that is durable, or all
\* of the log and the open attempt; and the WAL holds its end.
Restored(R, w, c, L, X, u) ==
    /\ R \in Seq(Ids) /\ Len(R) \in u .. Len(L) + 1
    /\ Len(c) <= Len(R) /\ \A i \in 1 .. Len(c) : R[i] = c[i]
    /\ \A i \in 1 .. Len(R) : IF i <= Len(L) THEN R[i] = L[i] ELSE R[i] \in X
    /\ \A i \in 1 .. ValidLen(w) : w[i].seq \in 1 .. Len(R) /\ w[i].id = R[w[i].seq]
    /\ Len(c) < Len(R) => ValidLen(w) >= 1 /\ w[ValidLen(w)].seq = Len(R)

\* What replay returns, for any contents a crash may leave.
LEMMA ReplayedIs ==
    ASSUME NEW D, NEW C, NEW L \in Seq(Ids), NEW X, NEW u \in Nat, NEW w, NEW c \in C, NEW R,
           R = Replayed(w, c), u <= Len(L),
           Consistent(D, C, L, X, u), Cached(D, w)
    PROVE  Restored(R, w, c, L, X, u)
<1> DEFINE v == ValidLen(w)
           k == Skipped(w, c)
           n == v - k
           S == [i \in 1 .. Len(Newer(w, c)) |-> Newer(w, c)[i].id]
<1>a. /\ c \in Seq(Ids) /\ Len(c) \in Nat /\ Len(L) \in Nat /\ Len(c) <= Len(L)
      /\ \A i \in 1 .. Len(c) : c[i] = L[i]
    BY DEF Consistent, Prefixes
<1>b. v \in Nat /\ k \in 0 .. v
    BY ValidGrows, Zenon
<1>c. /\ \A i \in 1 .. v : /\ i \in Places /\ w[i] \in D[i] \cap Rec
                           /\ w[i].seq \in Nat /\ Shown(w[i], L, X)
      /\ \A i, j \in 1 .. v : i < j => w[i].seq < w[j].seq
      /\ \A i \in 1 .. v : w[i].seq <= Len(c) <=> i <= k
    BY ValidGrows, Zenon
<1>d. /\ Len(Newer(w, c)) = n
      /\ \A i \in 1 .. n : Newer(w, c)[i] = w[k + i] /\ w[k + i].seq = Len(c) + i
  <2>1. Follows(w, c)
    BY Contiguous
  <2> QED BY <2>1 DEF Follows
<1>e. R = c \o S
    BY DEF Replayed
<1> HIDE DEF v, k
<1>n. n \in Nat
    BY <1>b
<1>g. \A i \in 1 .. n : w[k + i] \in Rec /\ w[k + i].id \in Ids /\ k + i \in 1 .. v
    BY <1>b, <1>c, Values, SMTT(30)
<1>h. S = [i \in 1 .. n |-> Newer(w, c)[i].id]
    BY <1>d
<1>i. S \in Seq(Ids) /\ Len(S) = n /\ \A i \in 1 .. n : S[i] = w[k + i].id
  <2> HIDE DEF n
  <2>1. S \in [1 .. n -> Ids] /\ \A i \in 1 .. n : S[i] = w[k + i].id
    BY <1>d, <1>g, <1>h, Zenon
  <2> HIDE DEF S
  <2> QED BY <1>n, <2>1, SMTT(30)
<1> HIDE DEF S, n
<1>1. /\ R \in Seq(Ids) /\ Len(R) = Len(c) + n
      /\ \A i \in 1 .. Len(c) + n : R[i] = IF i <= Len(c) THEN c[i] ELSE S[i - Len(c)]
  <2>1. /\ c \o S \in Seq(Ids) /\ Len(c \o S) = Len(c) + Len(S)
        /\ \A i \in 1 .. Len(c) + Len(S) :
              (c \o S)[i] = IF i <= Len(c) THEN c[i] ELSE S[i - Len(c)]
    BY <1>a, <1>i, ConcatProperties, Zenon
  <2> QED BY <1>e, <1>i, <2>1
<1>2. \A i \in 1 .. Len(c) : R[i] = c[i] /\ R[i] = L[i]
    BY <1>1, <1>a, <1>n
<1>3. \A i \in 1 .. n : R[Len(c) + i] = w[k + i].id
  <2> SUFFICES ASSUME NEW i \in 1 .. n PROVE R[Len(c) + i] = w[k + i].id
    OBVIOUS
  <2>1. PICK j \in 1 .. Len(c) + n : j = Len(c) + i
    BY <1>a, <1>n
  <2>2. R[j] = S[j - Len(c)] /\ j - Len(c) = i
    BY <1>1, <1>a, <1>n, <2>1, SMTT(30)
  <2> QED BY <1>i, <2>1, <2>2, Zenon
<1>4. \A i \in 1 .. n : /\ Len(c) + i <= Len(L) + 1
                        /\ Len(c) + i <= Len(L) => w[k + i].id = L[Len(c) + i]
                        /\ Len(c) + i = Len(L) + 1 => w[k + i].id \in X
  <2> SUFFICES ASSUME NEW i \in 1 .. n
               PROVE  /\ Len(c) + i <= Len(L) + 1
                      /\ Len(c) + i <= Len(L) => w[k + i].id = L[Len(c) + i]
                      /\ Len(c) + i = Len(L) + 1 => w[k + i].id \in X
    OBVIOUS
  <2>1. PICK q \in 1 .. v : q = k + i
    BY <1>g
  <2>2. PICK s \in Nat : s = Len(c) + i
    BY <1>a, <1>n, SMTT(30)
  <2>3. w[q].seq = s /\ Shown(w[q], L, X)
    BY <1>c, <1>d, <2>1, <2>2, Zenon
  <2>4. /\ s <= Len(L) + 1 /\ (s <= Len(L) => w[q].id = L[s])
        /\ (s = Len(L) + 1 => w[q].id \in X)
    BY <1>a, <2>3 DEF Shown
  <2> QED BY <2>1, <2>2, <2>4, Zenon
<1>5. \A i \in 1 .. Len(R) : /\ i <= Len(L) + 1 /\ (i <= Len(L) => R[i] = L[i])
                             /\ i = Len(L) + 1 => R[i] \in X
  <2> SUFFICES ASSUME NEW i \in 1 .. Len(R), i > Len(c)
               PROVE  /\ i <= Len(L) + 1 /\ (i <= Len(L) => R[i] = L[i])
                      /\ i = Len(L) + 1 => R[i] \in X
    BY <1>1, <1>2, <1>a, <1>n
  <2>1. PICK j \in 1 .. n : i = Len(c) + j
    <3>1. i - Len(c) \in 1 .. n /\ i = Len(c) + (i - Len(c))
        BY <1>1, <1>a, <1>n
    <3> QED BY <3>1
  <2> QED BY <2>1, <1>3, <1>4, Zenon
<1>6. \A i \in 1 .. v : w[i].seq \in 1 .. Len(R) /\ w[i].id = R[w[i].seq]
  <2> SUFFICES ASSUME NEW i \in 1 .. v PROVE w[i].seq \in 1 .. Len(R) /\ w[i].id = R[w[i].seq]
    BY Zenon
  <2>1. CASE i <= k
    <3>1. w[i].seq <= Len(c) /\ w[i].seq \in 1 .. Len(L) /\ w[i].id = L[w[i].seq]
        BY <1>a, <1>c, <2>1, SMTT(30) DEF Shown
    <3>2. w[i].seq \in 1 .. Len(c)
        BY <1>a, <3>1
    <3> QED BY <1>1, <1>2, <1>a, <1>n, <3>1, <3>2, SMTT(30)
  <2>2. CASE i > k
    <3>1. PICK j \in 1 .. n : i = k + j
      <4>1. i - k \in 1 .. n /\ i = k + (i - k)
        BY <1>b, <2>2, SMTT(30) DEF n
      <4> QED BY <4>1
    <3>2. w[i].seq = Len(c) + j /\ w[i].id = R[Len(c) + j]
        BY <1>3, <1>d, <3>1, Zenon
    <3> QED BY <1>1, <1>a, <1>n, <3>2
  <2> QED BY <1>b, <2>1, <2>2
<1>7. Len(c) < Len(R) => v >= 1 /\ w[v].seq = Len(R)
  <2> SUFFICES ASSUME Len(c) < Len(R) PROVE v >= 1 /\ w[v].seq = Len(R)
    OBVIOUS
  <2>1. n \in 1 .. n /\ k + n = v /\ v >= 1
    BY <1>1, <1>a, <1>b, <1>n DEF n
  <2>2. w[k + n].seq = Len(c) + n
    BY <1>d, <2>1, Zenon
  <2> QED BY <1>1, <2>1, <2>2
<1>8. u <= Len(R)
  <2> SUFFICES ASSUME u > Len(c) PROVE u <= Len(R)
    BY <1>1, <1>a, <1>n, SMTT(30)
  <2>1. PICK j \in Places : Reaches(D, u, j)
    BY Zenon DEF Consistent, Durable
  <2>2. j \in 1 .. v /\ w[j].seq = u
    BY <2>1, ReachValid DEF Consistent, v
  <2> QED BY <1>6, <2>2, <1>1, <1>a, <1>n
<1>9. Len(R) <= Len(L) + 1
  <2>1. CASE Len(R) = 0
    BY <1>a, <2>1
  <2>2. CASE Len(R) # 0
    <3>1. Len(R) \in 1 .. Len(R)
        BY <1>1, <2>2
    <3> QED BY <1>5, <3>1, Zenon
  <2> QED BY <2>1, <2>2, Zenon
<1>10. \A i \in 1 .. Len(R) : IF i <= Len(L) THEN R[i] = L[i] ELSE R[i] \in X
  <2>1. \A i \in 1 .. Len(R) : i <= Len(L) \/ i = Len(L) + 1
    BY <1>1, <1>5, <1>a
  <2> QED BY <1>5, <2>1, Zenon
<1> QED BY <1>1, <1>2, <1>6, <1>7, <1>8, <1>9, <1>10, <1>a, <1>n, SMTT(30) DEF v, Restored

\* The state after opening, with the WAL synced and without a torn tail
LEMMA OpenKeeps ==
    ASSUME NEW D, NEW C, NEW L \in Seq(Ids), NEW X, NEW u \in Nat, NEW w, NEW c, NEW R,
           R = Replayed(w, c), u <= Len(L), ValidLen(w) = Len(w), C = {c},
           Consistent(D, C, L, X, u), Cached(D, w)
    PROVE  /\ Consistent(Contents(w), C, R, {}, Len(R)) /\ Cached(Contents(w), w)
           /\ \A i \in 1 .. Len(w) : w[i] \in Rec /\ w[i].seq <= Len(R)
           /\ \A i \in Places : Contents(w)[i] = IF i <= Len(w) THEN {w[i]} ELSE {None}
<1> DEFINE E == Contents(w)
<1>a. Consistent(E, C, L, X, u) /\ Cached(E, w)
    BY SyncKeeps, Zenon
<1>1. Consistent(E, C, L, X, u) /\ Cached(E, w) /\ c \in C /\ Len(w) \in Nat
    BY <1>a, SMTT(30) DEF Cached
<1>2. /\ R \in Seq(Ids) /\ Len(R) \in Nat
      /\ Len(c) <= Len(R) /\ \A i \in 1 .. Len(c) : R[i] = c[i]
      /\ \A i \in 1 .. Len(w) : w[i].seq \in 1 .. Len(R) /\ w[i].id = R[w[i].seq]
      /\ Len(c) < Len(R) => Len(w) >= 1 /\ w[Len(w)].seq = Len(R)
  <2>1. Restored(R, w, c, L, X, u)
    BY ReplayedIs, <1>1
  <2> QED BY <2>1 DEF Restored
<1>3. \A i \in 1 .. Len(w) : w[i] \in Rec
    BY <1>1, ValidGrows, Zenon
<1>4. \A i \in Places : E[i] = IF i <= Len(w) THEN {w[i]} ELSE {None}
    BY Zenon DEF Contents
<1> HIDE DEF E
<1>5. \A i \in Places : \A r \in E[i] \cap Rec : Shown(r, R, {})
  <2> SUFFICES ASSUME NEW i \in Places, NEW r \in E[i] \cap Rec PROVE Shown(r, R, {})
    OBVIOUS
  <2>a. E[i] = IF i <= Len(w) THEN {w[i]} ELSE {None}
    BY <1>4, Zenon
  <2>b. i <= Len(w) /\ r = w[i]
    BY <2>a, Values, Zenon
  <2>1. i \in 1 .. Len(w) /\ r = w[i]
    BY <1>1, <2>b, Values, SMTT(30) DEF Places
  <2> QED BY <1>2, <2>1, Zenon DEF Shown
<1>6. Prefixes(C, R)
    BY <1>1, <1>2, Zenon DEF Prefixes, Consistent
<1>7. c \in Seq(Ids)
    BY <1>1 DEF Prefixes, Consistent
<1>8. Durable(E, C, 0)
    BY <1>1, <1>7, SMTT(30) DEF Durable
<1>9. Consistent(E, C, R, {}, 0)
    BY <1>1, <1>5, <1>6, <1>8, Zenon DEF Consistent
<1>10. \A b \in C : Len(b) < Len(R) => Len(w) >= 1 /\ w[Len(w)].seq = Len(R)
    BY <1>2, Zenon
<1>11. Consistent(E, C, R, {}, Len(R))
    BY <1>1, <1>2, <1>3, <1>9, <1>10, HardenKeeps, Zenon DEF E
<1>12. \A i \in 1 .. Len(w) : w[i].seq <= Len(R)
    BY <1>2
<1> QED BY <1>1, <1>3, <1>4, <1>11, <1>12, Zenon DEF E

-----------------------------------------------------------------------------
(* Steps *)

\* The empty store satisfies the invariant.
LEMMA Initially == ASSUME Placements = {"wal_dir"}, Init PROVE IInv
<1> DEFINE E == Contents(<<>>)
<1>1. \A i \in Places : E[i] = {None}
    BY DEF Contents, Places
<1>2. E \in [Places -> {{None}}]
    BY <1>1, Zenon DEF Contents
<1> HIDE DEF E
<1>3. Consistent(E, {<<>>}, <<>>, {}, 0)
    BY <1>1, <1>2, Values DEF Consistent, DiskType, Sorted, NoGap, Durable, Prefixes
<1>4. Cached(E, <<>>)
    BY <1>1, Values DEF Cached, Places
<1>5. disk = E
    BY Zenon DEF Init, E
<1>6. Bounds
    BY <1>1, <1>5, Values, SMTT(30) DEF Init, Bounds, Fresh, NoOp, PCs
<1>7. Steps
    BY <1>1, <1>5, Values DEF Init, Steps, Fresh, NoOp, At, Steady, Settled, Clean, Up, Places
<1> QED BY <1>3, <1>4, <1>5, <1>6, <1>7, Zenon DEF IInv, Init

\* Facts about every state
LEMMA Facts ==
    ASSUME IInv
    PROVE  /\ Len(wal) \in Nat /\ Len(log) \in Nat /\ Len(mem) \in Nat /\ attempts \in Nat
           /\ Len(wal) <= attempts /\ disk \in DiskType
           /\ \A c \in ckptDisk : c \in Seq(Ids) /\ Len(c) \in Nat /\ Len(c) <= Len(log)
           /\ \A i \in 1 .. Len(wal) : i \in Places /\ wal[i] \in disk[i] /\ wal[i] \in Rec \cup {Torn}
<1>1. /\ Len(wal) \in Nat /\ Len(log) \in Nat /\ Len(mem) \in Nat /\ attempts \in Nat
      /\ disk \in DiskType
  <2>1. mem \in Seq(Ids) /\ log \in Seq(Ids) /\ attempts \in 0 .. MaxAttempts
    BY Zenon DEF IInv, Bounds
  <2>2. disk \in DiskType /\ wal \in Seq(Rec \cup {Torn})
    BY Zenon DEF IInv, Cached, Consistent
  <2> QED BY <2>1, <2>2, Values
<1>2. \A c \in ckptDisk : c \in Seq(Ids) /\ Len(c) \in Nat /\ Len(c) <= Len(log)
    BY DEF IInv, Consistent, Prefixes
<1>3. \A i \in 1 .. Len(wal) : i \in Places /\ wal[i] \in disk[i] /\ wal[i] \in Rec \cup {Torn}
    BY <1>1, Values DEF IInv, Cached, Places
<1>4. Len(wal) <= attempts
  <2> SUFFICES ASSUME Len(wal) > attempts PROVE FALSE
    BY <1>1
  <2>1. Len(wal) \in 1 .. Len(wal)
    BY <1>1
  <2>2. disk[Len(wal)] = {None}
    BY <1>1, <1>3, <2>1, Zenon DEF IInv, Bounds
  <2> QED BY <1>3, <2>1, <2>2, Values, Zenon
<1> QED BY <1>1, <1>2, <1>3, <1>4, Zenon

\* The acknowledged commits that a crash must leave are among them all.
LEMMA DurableBound ==
    ASSUME IInv
    PROVE  /\ durable \in Nat /\ durable <= Len(log) /\ log \in Seq(Ids)
           /\ attempts \in 0 .. MaxAttempts /\ ckpt \in ckptDisk
           /\ Len(log) <= attempts /\ (doubt # {} => Len(log) < attempts)
<1>1. /\ durable \in 0 .. Len(log) /\ log \in Seq(Ids) /\ attempts \in 0 .. MaxAttempts
      /\ ckpt \in ckptDisk /\ Len(log) <= attempts /\ (doubt # {} => Len(log) < attempts)
    BY Zenon DEF IInv, Bounds
<1>2. Len(log) \in Nat
    BY Facts, Zenon
<1>3. durable \in Nat /\ durable <= Len(log)
    BY <1>1, <1>2, SMTT(30)
<1> QED BY <1>1, <1>3, Zenon

\* Dropping the last element of an extended sequence
LEMMA DropLast ==
    ASSUME NEW s \in Seq(Ids), NEW e \in Ids
    PROVE  /\ SubSeq(Append(s, e), 1, Len(Append(s, e)) - 1) = s
           /\ Len(Append(s, e)) = Len(s) + 1 /\ Append(s, e) \in Seq(Ids)
<1> DEFINE t == Append(s, e)
<1>1. /\ t \in Seq(Ids) /\ Len(t) = Len(s) + 1 /\ Len(s) \in Nat
      /\ \A i \in 1 .. Len(s) : t[i] = s[i] /\ s[i] \in Ids
    BY AppendProperties
<1> HIDE DEF t
<1>2. /\ SubSeq(t, 1, Len(s)) \in Seq(Ids) /\ Len(SubSeq(t, 1, Len(s))) = Len(s)
      /\ \A i \in 1 .. Len(s) : SubSeq(t, 1, Len(s))[i] = s[i]
    BY <1>1, SubSeqProperties
<1>3. SubSeq(t, 1, Len(s)) = s
    BY <1>1, <1>2, SeqEqual, Zenon
<1>4. Len(t) - 1 = Len(s)
    BY <1>1
<1> QED BY <1>1, <1>3, <1>4, Zenon DEF t

\* An unsealed writer between operations has no record beyond the log.
LEMMA SteadyRecords ==
    ASSUME IInv, Steady
    PROVE  /\ \A i \in Places : \A r \in disk[i] \cap Rec : i <= Len(wal) /\ r.seq <= Len(log)
           /\ \A i \in 1 .. Len(wal) : wal[i] \in Rec
<1>1. ASSUME NEW i \in Places, NEW r \in disk[i] \cap Rec PROVE i <= Len(wal) /\ r.seq <= Len(log)
  <2>1. i <= Len(wal)
    <3>1. i > Len(wal) => disk[i] = {None}
        BY DEF Steady, Clean
    <3> QED BY <3>1, Facts, Values DEF Places
  <2> QED BY <2>1, Zenon DEF Steady, Settled
<1> QED BY <1>1, Zenon DEF Steady, Settled

-----------------------------------------------------------------------------
(* commit *)

\* commit_internal applies the commit in memory first.
LEMMA StartCommitKeeps == ASSUME IInv, StartCommit PROVE IInv'
<1>1. /\ At("idle") /\ ~ writer.sealed /\ attempts < MaxAttempts
      /\ attempts' = attempts + 1 /\ mem' = Append(mem, attempts')
      /\ op' = [pc |-> "append", id |-> attempts', base |-> writer.write_pos]
      /\ doubt' = {attempts'}
      /\ UNCHANGED <<sync, place, horizon, writer, wal, disk, ckpt, ckptDisk, log, durable>>
    BY Zenon DEF StartCommit, Ready, config, files
<1>2. /\ mem = log /\ doubt = {} /\ Steady /\ \A c \in ckptDisk : horizon <= Len(c)
    BY <1>1, Zenon DEF IInv, Steps, At, Up
<1>3. attempts' \in Ids /\ attempts \in Nat /\ Len(wal) <= attempts /\ Len(log) \in Nat
    BY <1>1, Facts, Values DEF Ids
<1>4. Consistent(disk, ckptDisk, log, doubt', durable)
    BY <1>2, AttemptKeeps, Zenon DEF IInv
<1>5. Consistent(disk, ckptDisk, log, doubt, durable)' /\ Cached(disk, wal)'
    BY <1>1, <1>4, Zenon DEF IInv
<1>6. mem' \in Seq(Ids)
    BY <1>1, <1>3, AppendProperties, Zenon DEF IInv, Bounds
<1>7. Bounds'
  <2>1. op' \in [pc : PCs, id : 0 .. MaxAttempts, base : 0 .. MaxAttempts]
    BY <1>1, <1>3, Values, SMTT(30) DEF IInv, Bounds, Ids, PCs
  <2>2. doubt' \subseteq Ids /\ attempts' \in 0 .. MaxAttempts
    BY <1>1, <1>3, Values, SMTT(30) DEF Ids
  <2>3. \A i \in Places : i > attempts' => disk'[i] = {None}
    BY <1>1, <1>3, Values, SMTT(30) DEF IInv, Bounds, Places
  <2>4. Len(log) < attempts' /\ writer.write_pos <= attempts'
    <3>1. Len(log) <= attempts /\ writer.write_pos = Len(wal) /\ Len(wal) \in Nat
        BY <1>2, Facts, DurableBound, Zenon DEF Steady
    <3> QED BY <1>1, <1>3, <3>1
  <2>5. Len(log) <= attempts'
    BY <1>1, <1>3, <2>4
  <2> QED BY <1>1, <1>6, <2>1, <2>2, <2>3, <2>4, <2>5, Zenon DEF IInv, Bounds
<1>8. Steady' /\ Open'
    BY <1>1, <1>2, <1>3, Values, SMTT(30) DEF IInv, Bounds, Steady, Settled, Clean, Open
<1>9. Steps'
    BY <1>1, <1>2, <1>8, Zenon DEF Steps, At, Steady, Up
<1> QED BY <1>5, <1>7, <1>9, Zenon DEF IInv

\* Backpressure refuses the append before anything is written.
LEMMA AppendRefusedKeeps == ASSUME IInv, AppendRefused PROVE IInv'
<1>1. /\ At("append") /\ mem' = SubSeq(mem, 1, Len(mem) - 1)
      /\ op' = NoOp /\ doubt' = {}
      /\ UNCHANGED <<sync, place, horizon, writer, wal, disk, ckpt, ckptDisk, attempts, log,
                     durable>>
    BY Zenon DEF AppendRefused, RollBackStore, Return, config, files, counters
<1>2. Open /\ Steady /\ \A c \in ckptDisk : horizon <= Len(c)
    BY <1>1, Zenon DEF IInv, Steps, At, Up
<1>3. mem' = log
    BY <1>1, <1>2, DropLast, Zenon DEF Open, IInv, Bounds
<1>4. \A i \in Places : \A r \in disk[i] \cap Rec : r.seq # Len(log) + 1
    BY <1>2, SteadyRecords, Facts, Values, SMTT(30)
<1>5. Consistent(disk, ckptDisk, log, {}, durable)
    BY <1>4, FailKeeps, Zenon DEF IInv
<1>6. Consistent(disk, ckptDisk, log, doubt, durable)' /\ Cached(disk, wal)'
    BY <1>1, <1>5, Zenon DEF IInv
<1>7. Bounds'
    BY <1>1, <1>3, Values, SMTT(30) DEF IInv, Bounds, NoOp, PCs
<1>8. Steady'
    BY <1>1, <1>2, Zenon DEF Steady, Settled, Clean
<1>9. Steps'
    BY <1>1, <1>2, <1>3, <1>8, Zenon DEF Steps, At, Steady, NoOp, Up
<1> QED BY <1>6, <1>7, <1>9 DEF IInv

\* What the append of a record, whole or torn, leaves
Extended(r) ==
    /\ Consistent(disk', ckptDisk, log, doubt, durable) /\ Cached(disk', wal')
    /\ Len(wal') = op.base + 1 /\ wal'[op.base + 1] = r /\ op.base = Len(wal)
    /\ \A i \in 1 .. op.base : wal'[i] = wal[i] /\ wal'[i] \in Rec
    /\ \A i \in Places : i > op.base + 1 => disk'[i] = {None}
    /\ \A i \in Places : \A s \in disk'[i] \cap Rec :
          IF i <= op.base THEN s.seq <= Len(log) ELSE s.seq = Len(log) + 1
    /\ \A c \in ckptDisk : Len(c) < Len(log) => op.base >= 1 /\ wal'[op.base].seq = Len(log)

\* The file after an append, whole or torn.
LEMMA AppendStep ==
    ASSUME IInv, At("append"), NEW r \in {Record(Len(mem), op.id), Torn}, AppendRecord(r)
    PROVE  Extended(r)
<1>1. Open /\ Steady /\ op.base = Len(wal)
    BY Zenon DEF IInv, Steps
<1>2. /\ log \in Seq(Ids) /\ Len(log) \in Nat /\ Len(wal) \in Nat /\ Len(mem) = Len(log) + 1
      /\ Len(log) < attempts /\ attempts \in 0 .. MaxAttempts /\ Len(wal) < attempts
    BY <1>1, Facts, DropLast, Zenon DEF IInv, Bounds, Open
<1>3. Record(Len(mem), op.id) \in Rec
    BY <1>1, <1>2, Values, SMTT(30) DEF Open, Ids
<1>4. r \in Rec \cup {Torn} /\ (r \in Rec => r.seq = Len(log) + 1 /\ r.id \in doubt)
    BY <1>1, <1>2, <1>3, Values DEF Record, Open
<1>5. \A i \in Places : i > Len(wal) => disk[i] = {None}
    BY <1>1, Zenon DEF Steady, Clean
<1>6. \A i \in Places : \A s \in disk[i] \cap Rec : s.seq <= Len(log)
    BY <1>1, SteadyRecords, Zenon
<1>7. \A c \in ckptDisk : Len(c) < Len(log) =>
          Len(wal) >= 1 /\ wal[Len(wal)] \in Rec /\ wal[Len(wal)].seq = Len(log)
    BY <1>1, <1>2, SMTT(30) DEF Steady, Settled
<1>8. durable \in Nat /\ durable <= Len(log) /\ Len(wal) < MaxAttempts
    BY <1>2, Values DEF IInv, Bounds
<1>9. wal' = Append(wal, r) /\ disk' = [disk EXCEPT ![Len(wal) + 1] = @ \cup {r, Torn}]
    BY Zenon DEF AppendRecord
<1>10. /\ Consistent(disk', ckptDisk, log, doubt, durable) /\ Cached(disk', Append(wal, r))
       /\ Len(Append(wal, r)) = Len(wal) + 1 /\ Append(wal, r)[Len(wal) + 1] = r
       /\ \A i \in 1 .. Len(wal) : Append(wal, r)[i] = wal[i]
       /\ \A i \in Places : i > Len(wal) + 1 => disk'[i] = {None}
       /\ \A i \in Places : \A s \in disk'[i] \cap Rec :
             IF i <= Len(wal) THEN s.seq <= Len(log) ELSE s.seq = Len(log) + 1
  <2>1. Grown(disk', wal, r, ckptDisk, log, doubt, durable)
    BY <1>2, <1>4, <1>5, <1>6, <1>7, <1>8, <1>9, AppendKeeps, Zenon DEF IInv
  <2> QED BY <2>1 DEF Grown
<1>11. \A i \in 1 .. Len(wal) : wal[i] \in Rec
    BY <1>1, Zenon DEF Steady, Settled
<1>12. \A c \in ckptDisk : Len(c) < Len(log) => op.base >= 1 /\ wal'[op.base].seq = Len(log)
    BY <1>1, <1>2, <1>7, <1>9, <1>10, SMTT(30)
<1> QED BY <1>1, <1>9, <1>10, <1>11, <1>12, Zenon DEF Extended

\* The bounds on places after a change below the attempts
LEMMA AppendPlaces ==
    ASSUME IInv, At("append"), NEW r, AppendRecord(r), Len(wal) < attempts
    PROVE  \A i \in Places : i > attempts => disk'[i] = {None}
<1>1. \A i \in Places : i # Len(wal) + 1 => disk'[i] = disk[i]
    BY Facts DEF AppendRecord, DiskType
<1> QED BY <1>1, Facts, SMTT(30) DEF IInv, Bounds, Places

\* The append succeeds; the commit stands, or waits for its sync.
LEMMA AppendWriteKeeps == ASSUME IInv, AppendWrite PROVE IInv'
<1> DEFINE r == Record(Len(mem), op.id)
<1>1. /\ At("append") /\ AppendRecord(r)
      /\ UNCHANGED <<sync, place, mem, horizon, ckpt, ckptDisk, attempts, durable>>
    BY Zenon DEF AppendWrite, config, counters, promise
<1>2. Open /\ Steady /\ op.base = Len(wal) /\ \A c \in ckptDisk : horizon <= Len(c)
    BY <1>1 DEF IInv, Steps, At, Up
<1>3. Extended(r)
    BY <1>1, AppendStep, Zenon
<1>4. /\ log \in Seq(Ids) /\ Len(log) \in Nat /\ Len(wal) \in Nat /\ Len(mem) = Len(log) + 1
      /\ Len(log) < attempts /\ attempts \in 0 .. MaxAttempts /\ Len(wal) < attempts
      /\ attempts \in Nat
    BY <1>2, Facts, DropLast, Zenon DEF IInv, Bounds, Open
<1>5. \A i \in Places : i > attempts => disk'[i] = {None}
    BY <1>1, <1>4, AppendPlaces, Zenon
<1>6. r \in Rec /\ r.seq = Len(log) + 1 /\ r = Record(Len(log) + 1, op.id)
    BY <1>2, <1>4, Values DEF Open, Ids, Record
<1> HIDE DEF r
<1>7. CASE sync
  <2>1. /\ writer' = [writer EXCEPT !.write_pos = @ + 1] /\ op' = [op EXCEPT !.pc = "sync"]
        /\ UNCHANGED <<log, doubt>>
    BY <1>7 DEF AppendWrite, Goto, promise
  <2>2. /\ op'.pc = "sync" /\ op'.id = op.id /\ op'.base = op.base
        /\ op' \in [pc : PCs, id : 0 .. MaxAttempts, base : 0 .. MaxAttempts]
    BY <2>1, Zenon DEF IInv, Bounds, PCs
  <2>3. /\ writer'.write_pos = Len(wal) + 1 /\ writer'.pending = writer.pending
        /\ writer'.last_seq = writer.last_seq /\ writer'.sealed = writer.sealed
        /\ writer' \in [write_pos : 0 .. MaxAttempts, pending : 0 .. MaxAttempts,
                        last_seq : 0 .. MaxAttempts, sealed : BOOLEAN]
    <3>1. writer \in [write_pos : 0 .. MaxAttempts, pending : 0 .. MaxAttempts,
                      last_seq : 0 .. MaxAttempts, sealed : BOOLEAN]
        BY Zenon DEF IInv, Bounds
    <3>2. writer.write_pos = Len(wal)
        BY <1>2, Zenon DEF Steady
    <3>3. Len(wal) + 1 \in 0 .. MaxAttempts
        BY <1>4, Values
    <3>4. writer' = [write_pos |-> Len(wal) + 1, pending |-> writer.pending,
                     last_seq |-> writer.last_seq, sealed |-> writer.sealed]
        BY <2>1, <3>1, <3>2, Zenon
    <3> QED BY <3>1, <3>3, <3>4, Zenon
  <2>4. Bounds'
    <3>1. writer'.write_pos <= attempts /\ writer'.pending <= writer'.write_pos
      <4>1. writer.pending <= op.base /\ op.base = Len(wal) /\ writer.pending \in 0 .. MaxAttempts
        BY <1>2, Zenon DEF Open, IInv, Bounds
      <4> QED BY <1>4, <2>3, <4>1, Values
    <3> QED BY <1>1, <1>5, <2>1, <2>2, <2>3, <3>1, Zenon DEF IInv, Bounds
  <2>5. Settled(op.base)' /\ Clean'
    BY <1>1, <1>2, <1>3, <1>4, <2>1, <2>2 DEF Extended, Settled, Clean
  <2>6. Open'
    BY <1>1, <1>2, <2>1, <2>2, <2>3, Zenon DEF Open
  <2>7. Steps'
    BY <1>1, <1>2, <1>3, <1>4, <1>6, <1>7, <2>1, <2>2, <2>3, <2>5, <2>6, Zenon DEF Steps, At, Up, Extended
  <2>8. Consistent(disk, ckptDisk, log, doubt, durable)' /\ Cached(disk, wal)'
    BY <1>1, <1>3, <2>1, Zenon DEF Extended
  <2> QED BY <2>4, <2>7, <2>8 DEF IInv
<1>8. CASE ~ sync
  <2>1. /\ writer' = [writer EXCEPT !.write_pos = @ + 1, !.pending = @ + 1, !.last_seq = Len(mem)]
        /\ op' = NoOp /\ log' = Append(log, op.id) /\ doubt' = {}
    BY <1>8, Zenon DEF AppendWrite, Acknowledge, Return
  <2>2. /\ writer'.write_pos = Len(wal) + 1 /\ writer'.pending = writer.pending + 1
        /\ writer'.last_seq = Len(mem) /\ writer'.sealed = writer.sealed
        /\ writer' \in [write_pos : 0 .. MaxAttempts, pending : 0 .. MaxAttempts,
                        last_seq : 0 .. MaxAttempts, sealed : BOOLEAN]
    <3>1. writer \in [write_pos : 0 .. MaxAttempts, pending : 0 .. MaxAttempts,
                      last_seq : 0 .. MaxAttempts, sealed : BOOLEAN]
        BY Zenon DEF IInv, Bounds
    <3>2. writer.write_pos = Len(wal) /\ writer.pending <= Len(wal) /\ writer.pending \in Nat
        BY <1>2, <3>1, Values DEF Steady, Open
    <3>3. /\ Len(wal) + 1 \in 0 .. MaxAttempts /\ writer.pending + 1 \in 0 .. MaxAttempts
          /\ Len(mem) \in 0 .. MaxAttempts
        BY <1>4, <3>2, Values
    <3>4. writer' = [write_pos |-> Len(wal) + 1, pending |-> writer.pending + 1,
                     last_seq |-> Len(mem), sealed |-> writer.sealed]
        BY <2>1, <3>1, <3>2, Zenon
    <3> QED BY <3>1, <3>3, <3>4, Zenon
  <2>3. log' \in Seq(Ids) /\ Len(log') = Len(log) + 1 /\ mem = log'
    BY <1>2, <1>4, <2>1, AppendProperties, Zenon DEF Open
  <2>4. Bounds'
    <3>1. /\ writer'.write_pos <= attempts /\ writer'.pending <= writer'.write_pos
          /\ Len(log') <= attempts /\ durable \in 0 .. Len(log')
      <4>1. writer.pending <= op.base /\ op.base = Len(wal) /\ writer.pending \in 0 .. MaxAttempts
        BY <1>2, Zenon DEF Open, IInv, Bounds
      <4> QED BY <1>4, <2>2, <2>3, <4>1, DurableBound, Values
    <3> QED BY <1>1, <1>5, <2>1, <2>2, <2>3, <3>1, NoOpTyped, Zenon DEF IInv, Bounds
  <2>5. Clean' /\ Len(wal') = Len(wal) + 1
    BY <1>1, <1>2, <1>3, <1>4, Zenon DEF Extended, Clean
  <2>6. Settled(Len(wal))'
    <3>1. \A i \in 1 .. Len(wal') : wal'[i] \in Rec
        BY <1>2, <1>3, <1>4, <1>6, <2>5, SMTT(30) DEF Extended
    <3>2. \A i \in Places : \A s \in disk'[i] \cap Rec : i <= Len(wal') /\ s.seq <= Len(log')
      <4> SUFFICES ASSUME NEW i \in Places, NEW s \in disk'[i] \cap Rec
                   PROVE  i <= Len(wal') /\ s.seq <= Len(log')
        OBVIOUS
      <4>1. i > Len(wal') => disk'[i] = {None}
        BY <2>5, Zenon DEF Clean
      <4>2. i <= Len(wal')
        BY <1>4, <2>5, <4>1, Values, SMTT(30) DEF Places
      <4>3. s.seq <= Len(log) \/ s.seq = Len(log) + 1
        BY <1>3, Zenon DEF Extended
      <4> QED BY <1>4, <2>3, <4>2, <4>3, Values
    <3>3. Len(wal') >= 1 /\ wal'[Len(wal')].seq = Len(log')
        BY <1>2, <1>3, <1>4, <1>6, <2>3, <2>5 DEF Extended
    <3> QED BY <1>4, <2>5, <3>1, <3>2, <3>3, SMTT(30) DEF Settled
  <2>7. Steps'
    BY <1>1, <1>2, <2>1, <2>2, <2>3, <2>5, <2>6, Zenon DEF Steps, At, Up, NoOp, Steady
  <2>8. Consistent(disk', ckptDisk, log, {op.id}, durable) /\ op.id \in Ids
    BY <1>2, <1>3, Zenon DEF Extended, Open
  <2>9. Consistent(disk, ckptDisk, log, doubt, durable)' /\ Cached(disk, wal)'
    BY <1>1, <1>3, <1>4, <2>1, <2>8, AcknowledgeKeeps, Zenon DEF Extended
  <2> QED BY <2>4, <2>7, <2>9 DEF IInv
<1> QED BY <1>7, <1>8

\* The append fails and may leave a torn or a whole record.
LEMMA AppendFailsKeeps == ASSUME IInv, AppendFails PROVE IInv'
<1>1. /\ At("append") /\ op' = [op EXCEPT !.pc = "rollback"]
      /\ UNCHANGED <<sync, place, mem, horizon, writer, ckpt, ckptDisk, attempts, log, doubt,
                     durable>>
    BY DEF AppendFails, config, promise, FailureLeft, Goto
<1>2. Open /\ Steady /\ op.base = Len(wal) /\ \A c \in ckptDisk : horizon <= Len(c)
    BY <1>1 DEF IInv, Steps, At, Up
<1>3. /\ op'.pc = "rollback" /\ op'.id = op.id /\ op'.base = op.base
      /\ op' \in [pc : PCs, id : 0 .. MaxAttempts, base : 0 .. MaxAttempts]
    BY <1>1, Zenon DEF IInv, Bounds, PCs
<1>4. Len(wal) < attempts /\ Len(wal) \in Nat /\ Len(log) \in Nat
    BY <1>2, Facts DEF Open
<1> DEFINE Kept == /\ Settled(op.base)' /\ (\A i \in Places : i > attempts => disk'[i] = {None})
                   /\ Consistent(disk', ckptDisk, log, doubt, durable) /\ Cached(disk', wal')
<1>5. Kept
  <2>1. ASSUME NEW r \in {Record(Len(mem), op.id), Torn}, AppendRecord(r) PROVE Kept
    <3>1. Extended(r)
        BY <1>1, <2>1, AppendStep
    <3>2. Settled(op.base)'
        BY <1>1, <1>2, <1>3, <1>4, <3>1 DEF Extended, Settled
    <3>3. \A i \in Places : i > attempts => disk'[i] = {None}
        BY <1>1, <1>4, <2>1, AppendPlaces, Zenon
    <3> QED BY <3>1, <3>2, <3>3 DEF Extended
  <2>2. CASE UNCHANGED <<wal, disk>>
    BY <1>1, <1>2, <1>3, <2>2 DEF IInv, Bounds, Steady, Settled
  <2> HIDE DEF Kept
  <2> QED BY <2>1, <2>2 DEF AppendFails
<1>6. Bounds'
    BY <1>1, <1>3, <1>5 DEF IInv, Bounds
<1>7. Open'
    BY <1>1, <1>2, <1>3 DEF Open
<1>8. Steps'
    BY <1>1, <1>2, <1>3, <1>5, <1>7, Zenon DEF Steps, At, Up
<1> QED BY <1>1, <1>5, <1>6, <1>8, Zenon DEF IInv

\* The record's sync fails: it may survive or not.
LEMMA AppendSyncFailsKeeps == ASSUME IInv, AppendSyncFails PROVE IInv'
<1>1. /\ At("sync") /\ op' = [op EXCEPT !.pc = "rollback"]
      /\ UNCHANGED <<sync, place, mem, horizon, writer, wal, disk, ckpt, ckptDisk, attempts, log,
                     doubt, durable>>
    BY DEF AppendSyncFails, config, files, promise, FailureLeft, Goto
<1>2. Open /\ Settled(op.base) /\ \A c \in ckptDisk : horizon <= Len(c)
    BY <1>1 DEF IInv, Steps, At, Up
<1>3. /\ op'.pc = "rollback" /\ op'.id = op.id /\ op'.base = op.base
      /\ op' \in [pc : PCs, id : 0 .. MaxAttempts, base : 0 .. MaxAttempts]
    BY <1>1, Zenon DEF IInv, Bounds, PCs
<1>4. Bounds'
    BY <1>1, <1>3 DEF IInv, Bounds
<1>5. Steps'
    BY <1>1, <1>2, <1>3 DEF Steps, At, Up, Open, Settled
<1> QED BY <1>1, <1>4, <1>5 DEF IInv

\* The record is durable and the commit acknowledged.
LEMMA AppendSyncKeeps == ASSUME IInv, AppendSync PROVE IInv'
<1>1. /\ At("sync") /\ disk' = Contents(wal) /\ op' = NoOp
      /\ writer' = [writer EXCEPT !.pending = 0, !.last_seq = Len(mem)]
      /\ log' = Append(log, op.id) /\ doubt' = {} /\ durable' = Len(log')
      /\ UNCHANGED <<sync, place, mem, horizon, wal, ckpt, ckptDisk, attempts>>
    BY DEF AppendSync, SyncAll, Acknowledge, Return, config, counters
<1>2. /\ Open /\ Settled(op.base) /\ Clean /\ \A c \in ckptDisk : horizon <= Len(c)
      /\ Len(wal) = op.base + 1 /\ writer.write_pos = Len(wal)
      /\ wal[Len(wal)] = Record(Len(log) + 1, op.id)
    BY <1>1 DEF IInv, Steps, At, Up
<1>3. /\ log \in Seq(Ids) /\ Len(log) \in Nat /\ Len(wal) \in Nat /\ op.id \in Ids
      /\ Len(log) < attempts /\ attempts \in 0 .. MaxAttempts /\ Len(wal) <= attempts
      /\ attempts \in Nat
    BY <1>2, Facts, Zenon DEF IInv, Bounds, Open
<1>4. log' \in Seq(Ids) /\ Len(log') = Len(log) + 1 /\ mem = log'
    BY <1>1, <1>2, <1>3, AppendProperties, SMTT(30) DEF Open
<1>5. /\ writer'.write_pos = Len(wal) /\ writer'.pending = 0 /\ writer'.last_seq = Len(log')
      /\ writer'.sealed = writer.sealed
      /\ writer' \in [write_pos : 0 .. MaxAttempts, pending : 0 .. MaxAttempts,
                      last_seq : 0 .. MaxAttempts, sealed : BOOLEAN]
  <2>1. writer \in [write_pos : 0 .. MaxAttempts, pending : 0 .. MaxAttempts,
                    last_seq : 0 .. MaxAttempts, sealed : BOOLEAN]
    BY DEF IInv, Bounds
  <2>2. writer' = [write_pos |-> writer.write_pos, pending |-> 0, last_seq |-> Len(mem),
                   sealed |-> writer.sealed]
    BY <1>1, <2>1, Zenon
  <2>3. Len(mem) \in 0 .. MaxAttempts
    BY <1>3, <1>4, Values
  <2> QED BY <1>2, <1>4, <2>1, <2>2, <2>3, Values
<1>6. Record(Len(log) + 1, op.id) \in Rec
    BY <1>3, Values DEF Ids
<1>7. \A i \in 1 .. Len(wal) : wal[i] \in Rec
    BY <1>2, <1>3, <1>6, SMTT(30) DEF Settled
<1>8. wal[Len(wal)].seq = Len(log') /\ Len(wal) >= 1
    BY <1>2, <1>3, <1>4 DEF Record, Settled
<1>9. \A i \in Places : disk'[i] = IF i <= Len(wal) THEN {wal[i]} ELSE {None}
    BY <1>1, Zenon DEF Contents
<1>10. \A i \in Places : \A s \in disk'[i] \cap Rec : i <= Len(wal) /\ s.seq <= Len(log')
  <2> SUFFICES ASSUME NEW i \in Places, NEW s \in disk'[i] \cap Rec
               PROVE  i <= Len(wal) /\ s.seq <= Len(log')
    OBVIOUS
  <2>1. i <= Len(wal) /\ s = wal[i]
    BY <1>9, Values, Zenon
  <2>2. s \in disk[i] \cap Rec
    BY <1>3, <2>1, Facts, Values, SMTT(30) DEF Places
  <2>3. s.seq <= Len(log) \/ s.seq = Len(log) + 1
    BY <1>2, <2>2 DEF Settled
  <2> QED BY <1>3, <1>4, <2>1, <2>3, Values, SMTT(30)
<1>a. \A i \in Places : i > Len(wal) => disk'[i] = {None}
  <2> SUFFICES ASSUME NEW i \in Places, i > Len(wal) PROVE disk'[i] = {None}
    OBVIOUS
  <2>1. ~ (i <= Len(wal))
    BY <1>3, Values DEF Places
  <2> QED BY <1>9, <2>1, Zenon
<1>11. Settled(Len(wal))' /\ Clean'
    BY <1>1, <1>3, <1>7, <1>8, <1>10, <1>a DEF Settled, Clean
<1>12. Bounds'
  <2>1. \A i \in Places : i > attempts => disk'[i] = {None}
    BY <1>3, <1>a, Values DEF Places
  <2> QED BY <1>1, <1>2, <1>3, <1>4, <1>5, <2>1, Values, SMTT(30) DEF IInv, Bounds, NoOp, PCs
<1>13. Steps'
    BY <1>1, <1>2, <1>4, <1>5, <1>11, Zenon DEF Steps, At, Up, NoOp, Steady, Open
<1>14. Consistent(disk, ckptDisk, log, doubt, durable)' /\ Cached(disk, wal)'
  <2>1. Consistent(disk, ckptDisk, log, {op.id}, durable) /\ Cached(disk, wal)
    BY <1>2 DEF IInv, Open
  <2>2. Consistent(disk', ckptDisk, log, {op.id}, durable) /\ Cached(disk', wal)
    BY <1>1, <2>1, SyncKeeps, Zenon
  <2>3. Consistent(disk', ckptDisk, log', {}, durable)
    BY <1>1, <1>3, <2>2, AcknowledgeKeeps, Zenon
  <2>4. Consistent(Contents(wal), ckptDisk, log', {}, Len(log'))
    BY <1>1, <1>4, <1>7, <1>8, <2>2, <2>3, HardenKeeps, Zenon
  <2> QED BY <1>1, <2>2, <2>4, Zenon
<1> QED BY <1>12, <1>13, <1>14 DEF IInv

\* The places of a synced file
LEMMA ContentsOf ==
    ASSUME NEW w, Len(w) \in Nat
    PROVE  /\ \A i \in Places : /\ i <= Len(w) => Contents(w)[i] = {w[i]}
                                /\ i > Len(w) => Contents(w)[i] = {None}
           /\ \A i \in Places : \A r \in Contents(w)[i] \cap Rec : i <= Len(w) /\ r = w[i]
<1>1. \A i \in Places : Contents(w)[i] = IF i <= Len(w) THEN {w[i]} ELSE {None}
    BY DEF Contents
<1>2. \A i \in Places : i > Len(w) <=> ~ (i <= Len(w))
    BY Values DEF Places
<1>3. \A i \in Places : \A r \in Contents(w)[i] \cap Rec : i <= Len(w) /\ r = w[i]
    BY <1>1, Values, Zenon
<1> QED BY <1>1, <1>2, <1>3, Zenon

\* The durable records are among the settled ones.
LEMMA DurableBelow ==
    ASSUME IInv, NEW n, Settled(n), NEW j \in Places, Reaches(disk, durable, j)
    PROVE  j <= n
<1>1. n \in Nat /\ j \in Nat /\ durable \in Nat /\ durable <= Len(log) /\ Len(log) \in Nat
    BY Facts, Values DEF Settled, Places, IInv, Bounds
<1>2. PICK r : r \in disk[j]
    BY Zenon DEF IInv, Cached
<1>3. r \in Rec /\ r.seq = durable
    BY <1>1, <1>2, Values DEF Reaches, Places
<1> QED BY <1>1, <1>2, <1>3, SMTT(30) DEF Settled

\* rollback_failed_append cuts the file at the old cursor.
LEMMA RollbackTruncateKeeps == ASSUME IInv, RollbackTruncate PROVE IInv'
<1>1. /\ At("rollback") /\ op' = [op EXCEPT !.pc = "rollback_sync"]
      /\ wal' = SubSeq(wal, 1, op.base)
      /\ disk' = [i \in Places |-> IF i > op.base THEN disk[i] \cup {None} ELSE disk[i]]
      /\ UNCHANGED <<sync, place, mem, horizon, writer, ckpt, ckptDisk, attempts, log, doubt,
                     durable>>
    BY DEF RollbackTruncate, SetLen, config, promise, counters, Goto
<1>2. Open /\ Settled(op.base) /\ \A c \in ckptDisk : horizon <= Len(c)
    BY <1>1 DEF IInv, Steps, At, Up
<1>3. /\ op'.pc = "rollback_sync" /\ op'.id = op.id /\ op'.base = op.base
      /\ op' \in [pc : PCs, id : 0 .. MaxAttempts, base : 0 .. MaxAttempts]
    BY <1>1, Zenon DEF IInv, Bounds, PCs
<1>4. op.base \in 0 .. Len(wal) /\ op.base \in Nat /\ Len(wal) \in Nat
    BY <1>2, Facts DEF Settled
<1>5. /\ Consistent(disk', ckptDisk, log, doubt, durable) /\ Cached(disk', SubSeq(wal, 1, op.base))
      /\ Len(SubSeq(wal, 1, op.base)) = op.base
      /\ \A i \in 1 .. op.base : SubSeq(wal, 1, op.base)[i] = wal[i]
  <2>1. \A c \in ckptDisk, j \in Places : durable > Len(c) /\ Reaches(disk, durable, j) => j <= op.base
    BY <1>2, DurableBelow
  <2>2. Consistent(disk, ckptDisk, log, doubt, durable) /\ Cached(disk, wal)
    BY DEF IInv
  <2>3. Cut(disk', wal, op.base, ckptDisk, log, doubt, durable)
    BY <1>1, <1>4, <2>1, <2>2, CutKeeps, Zenon
  <2> QED BY <2>3, Zenon DEF Cut
<1>6. \A i \in Places : disk'[i] \cap Rec = disk[i] \cap Rec
    BY <1>1, Values
<1>7. Settled(op.base)' /\ Len(wal') = op.base
    BY <1>1, <1>2, <1>3, <1>4, <1>5, <1>6, SMTT(30) DEF Settled
<1>8. Bounds'
  <2>1. \A i \in Places : i > attempts => disk'[i] = {None}
    BY <1>1 DEF IInv, Bounds
  <2> QED BY <1>1, <1>3, <2>1, Zenon DEF IInv, Bounds
<1>9. Open'
    BY <1>1, <1>2, <1>3 DEF Open
<1>10. Steps'
    BY <1>1, <1>2, <1>3, <1>7, <1>9, Zenon DEF Steps, At, Up
<1> QED BY <1>1, <1>5, <1>8, <1>10, Zenon DEF IInv

\* The cut is durable: the failed commit cannot return.
LEMMA RollbackSyncKeeps == ASSUME IInv, RollbackSync PROVE IInv'
<1>1. /\ At("rollback_sync") /\ disk' = Contents(wal) /\ op' = NoOp
      /\ writer' = [writer EXCEPT !.write_pos = op.base]
      /\ mem' = SubSeq(mem, 1, Len(mem) - 1) /\ doubt' = {}
      /\ UNCHANGED <<sync, place, horizon, wal, ckpt, ckptDisk, attempts, log, durable>>
    BY DEF RollbackSync, SyncAll, RollBackStore, Return, config, counters
<1>2. /\ Open /\ Settled(op.base) /\ op.base = Len(wal)
      /\ \A c \in ckptDisk : horizon <= Len(c)
    BY <1>1 DEF IInv, Steps, At, Up
<1>3. mem' = log
    BY <1>1, <1>2, DropLast, Zenon DEF Open, IInv, Bounds
<1>4. Len(wal) \in Nat /\ Len(wal) <= attempts /\ attempts \in 0 .. MaxAttempts /\ Len(log) \in Nat
    BY Facts, Zenon DEF IInv, Bounds
<1>5. /\ writer'.write_pos = Len(wal) /\ writer'.pending = writer.pending
      /\ writer'.last_seq = writer.last_seq /\ writer'.sealed = writer.sealed
      /\ writer' \in [write_pos : 0 .. MaxAttempts, pending : 0 .. MaxAttempts,
                      last_seq : 0 .. MaxAttempts, sealed : BOOLEAN]
    BY <1>1, <1>2, <1>4, Values, Zenon DEF IInv, Bounds
<1>6. /\ \A i \in Places : i > Len(wal) => disk'[i] = {None}
      /\ \A i \in Places : \A r \in disk'[i] \cap Rec : i <= Len(wal) /\ r = wal[i]
    BY <1>1, <1>4, ContentsOf, Zenon
<1>7. \A i \in Places : \A r \in disk'[i] \cap Rec : i <= Len(wal) /\ r.seq <= Len(log)
  <2> SUFFICES ASSUME NEW i \in Places, NEW r \in disk'[i] \cap Rec
               PROVE  i <= Len(wal) /\ r.seq <= Len(log)
    BY Zenon
  <2>1. i <= Len(wal) /\ r \in disk[i] \cap Rec
    BY <1>6 DEF IInv, Cached
  <2> QED BY <1>2, <2>1, Zenon DEF Settled
<1>8. Settled(Len(wal))' /\ Clean'
    BY <1>1, <1>2, <1>4, <1>6, <1>7, Zenon DEF Settled, Clean
<1>9. Bounds'
  <2>1. \A i \in Places : i > attempts => disk'[i] = {None}
    BY <1>4, <1>6, Values DEF Places
  <2> QED BY <1>1, <1>2, <1>3, <1>4, <1>5, <2>1, Values, SMTT(30) DEF IInv, Bounds, NoOp, PCs, Open
<1>10. Steps'
    BY <1>1, <1>2, <1>3, <1>5, <1>8, Zenon DEF Steps, At, Up, NoOp, Steady, Open
<1>11. Consistent(disk', ckptDisk, log, doubt, durable) /\ Cached(disk', wal)
    BY <1>1, SyncKeeps, Zenon DEF IInv
<1>12. \A i \in Places : \A r \in disk'[i] \cap Rec : r.seq # Len(log) + 1
    BY <1>4, <1>7, Values, SMTT(30)
<1>13. Consistent(disk', ckptDisk, log, {}, durable)
    BY <1>11, <1>12, FailKeeps, Zenon
<1> QED BY <1>1, <1>9, <1>10, <1>11, <1>13, Zenon DEF IInv

\* A rollback that fails seals the writer; the commit stays in doubt.
LEMMA RollbackFailsKeeps == ASSUME IInv, RollbackFails PROVE IInv'
<1>1. /\ At("rollback") \/ At("rollback_sync")
      /\ writer' = [writer EXCEPT !.sealed = TRUE] /\ op' = NoOp
      /\ mem' = SubSeq(mem, 1, Len(mem) - 1)
      /\ UNCHANGED <<sync, place, horizon, wal, disk, ckpt, ckptDisk, attempts, log, durable, doubt>>
    BY DEF RollbackFails, FailureLeft, Seal, RollBackStore, Return, config, files, promise
<1>2. Open /\ \A c \in ckptDisk : horizon <= Len(c)
    BY <1>1 DEF IInv, Steps, At, Up
<1>3. mem' = log
    BY <1>1, <1>2, DropLast DEF Open, IInv, Bounds
<1>4. /\ writer'.write_pos = writer.write_pos /\ writer'.pending = writer.pending /\ writer'.sealed
      /\ writer' \in [write_pos : 0 .. MaxAttempts, pending : 0 .. MaxAttempts,
                      last_seq : 0 .. MaxAttempts, sealed : BOOLEAN]
    BY <1>1, Zenon DEF IInv, Bounds
<1>5. Bounds'
    BY <1>1, <1>3, <1>4, NoOpTyped, Zenon DEF IInv, Bounds
<1>6. Steps'
    BY <1>1, <1>2, <1>3, <1>4 DEF Steps, At, Up, NoOp
<1> QED BY <1>1, <1>5, <1>6, Zenon DEF IInv

-----------------------------------------------------------------------------
(* sync, checkpoint and truncate_wal *)

\* flush makes every record durable.
LEMMA FlushKeeps == ASSUME IInv, Flush PROVE IInv'
<1>1. /\ At("idle") /\ ~ writer.sealed /\ disk' = Contents(wal) /\ durable' = Len(log)
      /\ writer' = [writer EXCEPT !.pending = 0]
      /\ UNCHANGED <<sync, place, mem, horizon, wal, ckpt, ckptDisk, op, attempts, log, doubt>>
    BY DEF Flush, Ready, SyncAll, config, counters
<1>2. mem = log /\ doubt = {} /\ Steady /\ \A c \in ckptDisk : horizon <= Len(c)
    BY <1>1 DEF IInv, Steps, At, Up
<1>3. Len(wal) \in Nat /\ Len(wal) <= attempts /\ attempts \in 0 .. MaxAttempts /\ Len(log) \in Nat
    BY Facts DEF IInv, Bounds
<1>4. /\ writer'.write_pos = Len(wal) /\ writer'.pending = 0
      /\ writer'.last_seq = writer.last_seq /\ writer'.sealed = writer.sealed
      /\ writer' \in [write_pos : 0 .. MaxAttempts, pending : 0 .. MaxAttempts,
                      last_seq : 0 .. MaxAttempts, sealed : BOOLEAN]
    BY <1>1, <1>2, Values, SMTT(30) DEF IInv, Bounds, Steady
<1>5. /\ \A i \in Places : i > Len(wal) => disk'[i] = {None}
      /\ \A i \in Places : \A r \in disk'[i] \cap Rec : i <= Len(wal) /\ r = wal[i]
    BY <1>1, <1>3, ContentsOf
<1>6. \A i \in Places : \A r \in disk'[i] \cap Rec : i <= Len(wal) /\ r.seq <= Len(log)
  <2> SUFFICES ASSUME NEW i \in Places, NEW r \in disk'[i] \cap Rec
               PROVE  i <= Len(wal) /\ r.seq <= Len(log)
    OBVIOUS
  <2>1. i <= Len(wal) /\ r \in disk[i] \cap Rec
    BY <1>5 DEF IInv, Cached
  <2> QED BY <1>2, <2>1, SteadyRecords, Zenon
<1>7. Steady'
    BY <1>1, <1>2, <1>3, <1>4, <1>5, <1>6, Zenon DEF Settled, Clean, Steady
<1>8. Bounds'
  <2>1. \A i \in Places : i > attempts => disk'[i] = {None}
    BY <1>3, <1>5, Values DEF Places
  <2> QED BY <1>1, <1>2, <1>3, <1>4, <2>1, Values, SMTT(30) DEF IInv, Bounds
<1>9. Steps'
    BY <1>1, <1>2, <1>7, Zenon DEF Steps, At, Up, Steady
<1>10. Consistent(disk', ckptDisk, log, doubt, durable) /\ Cached(disk', wal)
    BY <1>1, SyncKeeps DEF IInv
<1>11. Consistent(Contents(wal), ckptDisk, log, doubt, Len(log))
  <2>1. /\ log \in Seq(Ids) /\ \A i \in 1 .. Len(wal) : wal[i] \in Rec
        /\ \A c \in ckptDisk : Len(c) < Len(log) => Len(wal) >= 1 /\ wal[Len(wal)].seq = Len(log)
    BY <1>2, Zenon DEF Steady, Settled, IInv, Bounds
  <2> QED BY <1>1, <1>10, <2>1, HardenKeeps, Zenon
<1> QED BY <1>1, <1>8, <1>9, <1>10, <1>11 DEF IInv

\* A sealed writer promises nothing until the store is opened again.
LEMMA SealKeeps ==
    ASSUME IInv, mem = log, Up, op' \in {op, NoOp}, At("idle")', Seal,
           UNCHANGED <<config, mem, horizon, files, attempts, promise>>
    PROVE  IInv'
<1>1. UNCHANGED <<sync, place, mem, horizon, wal, disk, ckpt, ckptDisk, attempts, log, durable, doubt>>
    BY DEF config, files, promise
<1>2. /\ writer'.write_pos = writer.write_pos /\ writer'.pending = writer.pending /\ writer'.sealed
      /\ writer' \in [write_pos : 0 .. MaxAttempts, pending : 0 .. MaxAttempts,
                      last_seq : 0 .. MaxAttempts, sealed : BOOLEAN]
    BY Zenon DEF IInv, Bounds, Seal
<1>3. op' \in [pc : PCs, id : 0 .. MaxAttempts, base : 0 .. MaxAttempts]
    BY Values, SMTT(30) DEF IInv, Bounds, NoOp, PCs
<1>4. Bounds'
    BY <1>1, <1>2, <1>3, Zenon DEF IInv, Bounds
<1>5. Steps'
    BY <1>1, <1>2, Zenon DEF IInv, Steps, At, Up
<1> QED BY <1>1, <1>4, <1>5, Zenon DEF IInv

\* A flush that fails seals the writer.
LEMMA FlushFailsKeeps == ASSUME IInv, FlushFails PROVE IInv'
<1>1. mem = log /\ Up /\ op' = op /\ At("idle")'
    BY DEF FlushFails, Ready, IInv, Steps, At, Up
<1> QED BY <1>1, SealKeeps, Zenon DEF FlushFails, FailureLeft

\* The new checkpoint may survive a crash, or the old one.
LEMMA CheckpointRenameKeeps == ASSUME IInv, CheckpointRename PROVE IInv'
<1>1. /\ At("idle") /\ ~ writer.sealed /\ ckpt' = mem /\ ckptDisk' = ckptDisk \cup {mem}
      /\ op' = [op EXCEPT !.pc = "dir_sync"]
      /\ UNCHANGED <<sync, place, mem, horizon, writer, wal, disk, attempts, log, durable, doubt>>
    BY DEF CheckpointRename, Ready, Goto, config, counters, promise
<1>2. mem = log /\ doubt = {} /\ Steady /\ \A c \in ckptDisk : horizon <= Len(c)
    BY <1>1 DEF IInv, Steps, At, Up
<1>3. /\ op'.pc = "dir_sync"
      /\ op' \in [pc : PCs, id : 0 .. MaxAttempts, base : 0 .. MaxAttempts]
    BY <1>1, Zenon DEF IInv, Bounds, PCs
<1>4. Bounds'
    BY <1>1, <1>3 DEF IInv, Bounds
<1>5. log \in Seq(Ids) /\ Len(log) \in Nat /\ durable \in Nat /\ durable <= Len(log)
    BY DEF IInv, Bounds
<1>6. \A c \in ckptDisk' : horizon <= Len(c)
  <2>1. ckpt \in ckptDisk /\ horizon \in Nat
    BY Values DEF IInv, Bounds
  <2>2. horizon <= Len(log)
    BY <1>2, <1>5, <2>1, Facts
  <2> QED BY <1>1, <1>2, <2>2
<1>7. Steady'
    BY <1>1, <1>2, <1>5 DEF Steady, Settled, Clean
<1>8. Steps'
    BY <1>1, <1>2, <1>3, <1>6, <1>7, Zenon DEF Steps, At, Up
<1>9. Consistent(disk, ckptDisk', log, doubt, durable)
    BY <1>1, <1>2, <1>5, CheckpointKeeps, Zenon DEF IInv
<1> QED BY <1>1, <1>4, <1>8, <1>9, Zenon DEF IInv

\* Only the new checkpoint survives.
LEMMA DirectorySyncKeeps == ASSUME IInv, DirectorySync PROVE IInv'
<1>1. /\ At("dir_sync") /\ ckptDisk' = {ckpt} /\ horizon' = Len(mem) /\ durable' = Len(log)
      /\ op' = NoOp
      /\ UNCHANGED <<sync, place, mem, writer, wal, disk, ckpt, attempts, log, doubt>>
    BY Zenon DEF DirectorySync, Return, config, counters
<1>2. mem = log /\ doubt = {} /\ Steady /\ ckpt = log
    BY <1>1, Zenon DEF IInv, Steps, At
<1>3. log \in Seq(Ids) /\ Len(log) \in Nat /\ ckpt \in ckptDisk
    BY DurableBound, LenInNat, Zenon
<1>4. Bounds'
  <2>1. horizon' \in 0 .. MaxAttempts /\ durable' \in 0 .. Len(log)
    BY <1>1, <1>2, <1>3, DurableBound, Values
  <2> QED BY <1>1, <2>1, NoOpTyped, Zenon DEF IInv, Bounds
<1>5. Steady'
    BY <1>1, <1>2, <1>3, Zenon DEF Steady, Settled, Clean
<1>6. Steps'
    BY <1>1, <1>2, <1>3, <1>5 DEF Steps, At, Up, NoOp
<1>7. Consistent(disk, {ckpt}, log, doubt, durable)
    BY <1>3, ShrinkKeeps, Facts DEF IInv
<1>8. Consistent(disk, {ckpt}, log, doubt, Len(log))
    BY <1>2, <1>3, <1>7, SMTT(30) DEF Consistent, Durable
<1> QED BY <1>1, <1>4, <1>6, <1>8, Zenon DEF IInv

\* Either checkpoint may survive; the horizon stays.
LEMMA DirectorySyncFailsKeeps == ASSUME IInv, DirectorySyncFails PROVE IInv'
<1>1. /\ At("dir_sync") /\ op' = NoOp
      /\ UNCHANGED <<sync, place, mem, horizon, writer, wal, disk, ckpt, ckptDisk, attempts, log,
                     durable, doubt>>
    BY Zenon DEF DirectorySyncFails, Return, FailureLeft, config, files, promise
<1>2. mem = log /\ doubt = {} /\ Steady /\ \A c \in ckptDisk : horizon <= Len(c)
    BY <1>1, Zenon DEF IInv, Steps, At, Up
<1>3. Bounds'
    BY <1>1, Values, SMTT(30) DEF IInv, Bounds, NoOp, PCs
<1>4. Steady'
    BY <1>1, <1>2, Zenon DEF Steady, Settled, Clean
<1>5. Steps'
    BY <1>1, <1>2, <1>4, Zenon DEF Steps, At, Up, NoOp
<1> QED BY <1>1, <1>3, <1>5, Zenon DEF IInv

\* The WAL is cut when every checkpoint that may survive has all of it.
LEMMA TruncateWalKeeps == ASSUME IInv, TruncateWal PROVE IInv'
<1>1. /\ At("idle") /\ ~ writer.sealed /\ Len(mem) <= horizon
      /\ op' = [op EXCEPT !.pc = "truncate_sync"] /\ wal' = SubSeq(wal, 1, 0)
      /\ disk' = [i \in Places |-> IF i > 0 THEN disk[i] \cup {None} ELSE disk[i]]
      /\ UNCHANGED <<sync, place, mem, horizon, writer, ckpt, ckptDisk, attempts, log, doubt,
                     durable>>
    BY DEF TruncateWal, Ready, MayTruncate, SetLen, config, promise, counters, Goto
<1>2. mem = log /\ doubt = {} /\ \A c \in ckptDisk : horizon <= Len(c)
    BY <1>1 DEF IInv, Steps, At, Up
<1>3. /\ op'.pc = "truncate_sync"
      /\ op' \in [pc : PCs, id : 0 .. MaxAttempts, base : 0 .. MaxAttempts]
    BY <1>1 DEF IInv, Bounds, PCs
<1>4. \A c \in ckptDisk : Len(c) = Len(log)
    BY <1>1, <1>2, Facts, Values, SMTT(30) DEF IInv, Bounds
<1>5. wal' = <<>>
    BY <1>1, SubSeqEmpty
<1>6. Cut(disk', wal, 0, ckptDisk, log, doubt, durable)
  <2>1. \A c \in ckptDisk, j \in Places : durable > Len(c) /\ Reaches(disk, durable, j) => j <= 0
    <3>1. durable \in Nat /\ Len(log) \in Nat /\ durable <= Len(log)
        BY DurableBound, Facts, Zenon
    <3>2. ~ (durable > Len(log))
        BY <3>1, SMTT(30)
    <3> QED BY <1>4, <3>2, Zenon
  <2>2. Consistent(disk, ckptDisk, log, doubt, durable) /\ Cached(disk, wal) /\ 0 \in 0 .. Len(wal)
    BY Facts DEF IInv
  <2> QED BY <1>1, <2>1, <2>2, CutKeeps, Zenon
<1>7. Bounds'
  <2>1. \A i \in Places : i > attempts => disk'[i] = {None}
    BY <1>1, Zenon DEF IInv, Bounds
  <2> QED BY <1>1, <1>3, <2>1, Zenon DEF IInv, Bounds
<1>8. Steps'
    BY <1>1, <1>2, <1>3, <1>4, <1>5 DEF Steps, At, Up
<1> QED BY <1>1, <1>6, <1>7, <1>8, Zenon DEF IInv, Cut

\* The empty WAL is durable and the cursor at its start.
LEMMA TruncateSyncKeeps == ASSUME IInv, TruncateSync PROVE IInv'
<1>1. /\ At("truncate_sync") /\ disk' = Contents(wal) /\ op' = NoOp
      /\ writer' = [writer EXCEPT !.write_pos = 0, !.pending = 0, !.last_seq = Len(mem)]
      /\ UNCHANGED <<sync, place, mem, horizon, wal, ckpt, ckptDisk, attempts, log, doubt, durable>>
    BY DEF TruncateSync, SyncAll, Return, config, counters, promise
<1>2. /\ mem = log /\ doubt = {} /\ ~ writer.sealed /\ wal = <<>>
      /\ \A c \in ckptDisk : Len(c) = Len(log) /\ horizon <= Len(c)
    BY <1>1, Zenon DEF IInv, Steps, At, Up
<1>3. Len(wal) = 0 /\ Len(log) \in 0 .. MaxAttempts /\ attempts \in Nat
    BY <1>2, Facts, Values DEF IInv, Bounds
<1>4. writer' = [write_pos |-> 0, pending |-> 0, last_seq |-> Len(log), sealed |-> FALSE]
  <2>1. writer \in [write_pos : 0 .. MaxAttempts, pending : 0 .. MaxAttempts,
                    last_seq : 0 .. MaxAttempts, sealed : BOOLEAN]
    BY DEF IInv, Bounds
  <2> QED BY <1>1, <1>2, <2>1, Zenon
<1>5. \A i \in Places : disk'[i] = {None}
    BY <1>1, <1>3, ContentsOf, Values DEF Places
<1>6. Bounds'
  <2>1. /\ writer' \in [write_pos : 0 .. MaxAttempts, pending : 0 .. MaxAttempts,
                        last_seq : 0 .. MaxAttempts, sealed : BOOLEAN]
        /\ writer'.write_pos = 0 /\ writer'.pending = 0
    BY <1>3, <1>4, Values
  <2>2. /\ writer'.write_pos <= attempts /\ writer'.pending <= writer'.write_pos
        /\ \A i \in Places : i > attempts => disk'[i] = {None}
    BY <1>3, <1>5, <2>1
  <2> QED BY <1>1, <2>1, <2>2, NoOpTyped, Zenon DEF IInv, Bounds
<1>7. Steady'
    BY <1>1, <1>2, <1>3, <1>4, <1>5, Values DEF Steady, Settled, Clean, Places
<1>8. Steps'
    BY <1>1, <1>2, <1>7 DEF Steps, At, Up, NoOp
<1>9. Consistent(disk', ckptDisk, log, doubt, durable) /\ Cached(disk', wal)
    BY <1>1, SyncKeeps, Zenon DEF IInv
<1> QED BY <1>1, <1>6, <1>8, <1>9, Zenon DEF IInv

\* A truncation that fails seals the writer.
LEMMA TruncateFailsKeeps == ASSUME IInv, TruncateFails PROVE IInv'
<1>1. mem = log /\ Up /\ op' = NoOp /\ At("idle")'
    BY DEF TruncateFails, Ready, IInv, Steps, At, Up, Return, NoOp
<1> QED BY <1>1, SealKeeps, Zenon DEF TruncateFails, FailureLeft

-----------------------------------------------------------------------------
(* Crashes and reopening *)

\* A stop keeps what callers were told.
LEMMA DownBounds ==
    ASSUME IInv, Down, \A i \in Places : i > attempts => disk'[i] = {None}, ckpt' \in ckptDisk'
    PROVE  Bounds' /\ Steps' /\ UNCHANGED <<log, doubt, durable>>
<1>1. /\ mem' = <<>> /\ horizon' = 0 /\ writer' = Fresh
      /\ op' = [NoOp EXCEPT !.pc = "down"]
      /\ UNCHANGED <<sync, place, attempts, log, doubt, durable>>
    BY DEF Down, config, promise
<1>2. op'.pc = "down" /\ op' \in [pc : PCs, id : 0 .. MaxAttempts, base : 0 .. MaxAttempts]
    BY <1>1, Values DEF NoOp, PCs
<1>3. /\ writer'.write_pos = 0 /\ writer'.pending = 0
      /\ writer' \in [write_pos : 0 .. MaxAttempts, pending : 0 .. MaxAttempts,
                      last_seq : 0 .. MaxAttempts, sealed : BOOLEAN]
    BY <1>1, Values DEF Fresh
<1>4. Bounds'
    BY <1>1, <1>2, <1>3, Values, SMTT(30) DEF IInv, Bounds
<1>5. Steps'
    BY <1>2, Zenon DEF Steps, At, Up
<1> QED BY <1>1, <1>4, <1>5

\* The process stops: page cache and disk stay.
LEMMA ProcessStopsKeeps == ASSUME IInv, ProcessStops PROVE IInv'
<1>1. Down /\ UNCHANGED <<wal, disk, ckpt, ckptDisk>>
    BY DEF ProcessStops, files
<1>2. Bounds' /\ Steps' /\ UNCHANGED <<log, doubt, durable>>
    BY <1>1, DownBounds, Zenon DEF IInv, Bounds
<1> QED BY <1>1, <1>2, Zenon DEF IInv

\* The file a machine crash leaves
LEMMA FileIs ==
    ASSUME NEW f \in [Places -> Rec \cup {Torn, None}]
    PROVE  /\ EndOf(f) \in 0 .. MaxAttempts /\ FileOf(f) \in Seq(Rec \cup {Torn})
           /\ Len(FileOf(f)) = EndOf(f)
           /\ \A i \in 1 .. EndOf(f) : FileOf(f)[i] = f[i] /\ f[i] # None
           /\ EndOf(f) < MaxAttempts => f[EndOf(f) + 1] = None
<1> DEFINE T == {i \in Places : f[i] = None}
           n == EndOf(f)
<1>1. PICK k \in 0 .. MaxAttempts : (k < MaxAttempts => k + 1 \in T) /\ \A i \in T : i > k
    BY LastBefore, Values, Zenon DEF Places
<1>2. (\A i \in 1 .. k : f[i] # None) /\ (k < MaxAttempts => f[k + 1] = None)
    BY <1>1, Values DEF Places
<1>3. /\ n \in 0 .. MaxAttempts /\ \A i \in 1 .. n : f[i] # None
      /\ n < MaxAttempts => f[n + 1] = None
    BY <1>2, Zenon DEF EndOf
<1>4. FileOf(f) = [i \in 1 .. n |-> f[i]]
    BY Zenon DEF FileOf
<1> HIDE DEF n
<1>5. n \in Nat /\ \A i \in 1 .. n : f[i] \in Rec \cup {Torn}
    BY <1>3, Values, SMTT(30) DEF Places
<1>6. FileOf(f) \in [1 .. n -> Rec \cup {Torn}] /\ \A i \in 1 .. n : FileOf(f)[i] = f[i]
    BY <1>4, <1>5, Zenon
<1>7. FileOf(f) \in Seq(Rec \cup {Torn}) /\ Len(FileOf(f)) = n
    BY <1>5, <1>6, SMTT(30)
<1> QED BY <1>3, <1>6, <1>7, Zenon DEF n

\* The machine stops: any of the possible contents is what is left.
LEMMA MachineStopsKeeps == ASSUME IInv, MachineStops PROVE IInv'
<1>1. Down /\ disk' = Contents(wal') /\ ckpt' \in ckptDisk /\ ckptDisk' = {ckpt'}
    BY DEF MachineStops
<1>2. PICK f \in Survivals : wal' = FileOf(f)
    BY Zenon DEF MachineStops
<1>3. /\ f \in [Places -> Rec \cup {Torn, None}] /\ \A i \in Places : f[i] \in disk[i]
    BY <1>2, Facts, Zenon DEF Survivals, DiskType
<1> DEFINE w == FileOf(f)
           n == EndOf(f)
<1>4. /\ n \in 0 .. MaxAttempts /\ w \in Seq(Rec \cup {Torn}) /\ Len(w) = n
      /\ \A i \in 1 .. n : w[i] = f[i] /\ f[i] # None
      /\ n < MaxAttempts => f[n + 1] = None
    BY <1>3, FileIs, Zenon
<1> HIDE DEF w, n
<1>5. n \in Nat /\ \A i \in 1 .. n : i \in Places /\ w[i] \in disk[i]
    BY <1>3, <1>4, Values, SMTT(30) DEF Places
<1>6. /\ \A i \in Places : /\ i <= n => disk'[i] = {w[i]}
                           /\ i > n => disk'[i] = {None}
      /\ \A i \in Places : \A r \in disk'[i] \cap Rec : i <= n /\ r = w[i]
    BY <1>1, <1>2, <1>4, <1>5, ContentsOf, SMTT(30) DEF w
<1>7. \A i \in Places : (i <= n => i \in 1 .. n) /\ (i <= n \/ i > n)
    BY <1>5, Values DEF Places
<1>8. disk' \in DiskType
  <2>1. \A i \in Places : disk'[i] \in SUBSET (Rec \cup {Torn, None})
    BY <1>4, <1>6, <1>7, SMTT(30)
  <2>2. disk' = [i \in Places |-> disk'[i]]
    BY <1>1, Zenon DEF Contents
  <2> QED BY <2>1, <2>2, Zenon DEF DiskType
<1>9. Cached(disk', wal')
    BY <1>2, <1>4, <1>6, <1>7, SMTT(30) DEF Cached, w
<1>10. \A i \in Places : disk'[i] \cap Rec \subseteq disk[i]
    BY <1>5, <1>6, <1>7, SMTT(30)
<1>11. ASSUME NEW j \in Places, Reaches(disk, durable, j), NEW i \in 1 .. j
       PROVE  disk'[i] \subseteq disk[i]
  <2>1. \A l \in 1 .. j : l \in Places /\ f[l] # None
    BY <1>3, <1>11, Values, SMTT(30) DEF Reaches, Places
  <2>2. j <= n
    <3> SUFFICES ASSUME j > n PROVE FALSE
        BY <1>5, Values, SMTT(30) DEF Places
    <3>1. n < MaxAttempts /\ n + 1 \in 1 .. j
        BY <1>5, Values, SMTT(30) DEF Places
    <3> QED BY <1>4, <2>1, <3>1, Zenon
  <2>3. i \in Places /\ i <= n
    BY <1>5, <2>1, <2>2, Values, SMTT(30) DEF Places
  <2> QED BY <1>5, <1>6, <1>7, <2>3, SMTT(30)
<1>12. Consistent(disk', ckptDisk', log, doubt, durable)
    BY <1>1, <1>8, <1>10, <1>11, ShrinkKeeps, SMTT(30) DEF IInv
<1>13. \A i \in Places : i > attempts => disk'[i] = {None}
  <2> SUFFICES ASSUME NEW i \in Places, i > attempts PROVE i > n
    BY <1>6
  <2>1. f[i] = None
    BY <1>3, Zenon DEF IInv, Bounds
  <2> QED BY <1>4, <1>7, <2>1
<1>14. Bounds' /\ Steps' /\ UNCHANGED <<log, doubt, durable>>
    BY <1>1, <1>13, DownBounds, Zenon
<1> QED BY <1>9, <1>12, <1>14, Zenon DEF IInv

\* open makes what it is going to read durable.
LEMMA OpenBarriersKeeps == ASSUME IInv, OpenBarriers PROVE IInv'
<1>1. /\ At("down") /\ disk' = Contents(wal) /\ op' = [op EXCEPT !.pc = "replay"]
      /\ UNCHANGED <<sync, place, mem, horizon, writer, wal, ckpt, attempts, log, doubt, durable>>
    BY Zenon DEF OpenBarriers, SyncAll, Goto, config, counters, promise
<1>2. ckptDisk' = {ckpt} /\ ckpt \in ckptDisk
    BY DEF OpenBarriers, IInv, Bounds
<1>3. /\ op'.pc = "replay"
      /\ op' \in [pc : PCs, id : 0 .. MaxAttempts, base : 0 .. MaxAttempts]
    BY <1>1, Zenon DEF IInv, Bounds, PCs
<1>4. Consistent(disk', ckptDisk, log, doubt, durable) /\ Cached(disk', wal)
    BY <1>1, SyncKeeps DEF IInv
<1>5. Consistent(disk', {ckpt}, log, doubt, durable)
  <2>1. disk' \in DiskType /\ {ckpt} \subseteq ckptDisk
    BY <1>2, <1>4, Zenon DEF Consistent
  <2> QED BY <1>4, <2>1, ShrinkKeeps, Zenon
<1>6. Bounds'
  <2>1. \A i \in Places : i > attempts => disk'[i] = {None}
    BY <1>1, Facts, ContentsOf, Values DEF Places
  <2> QED BY <1>1, <1>2, <1>3, <2>1, Zenon DEF IInv, Bounds
<1>7. Steps'
    BY <1>1, <1>2, <1>3, Zenon DEF Steps, At, Up
<1> QED BY <1>1, <1>2, <1>4, <1>5, <1>6, <1>7, Zenon DEF IInv

\* Both ways of opening: with the whole file, or after its tail was cut.
LEMMA OpensKeeps ==
    ASSUME IInv, Opens, ckptDisk = {ckpt}, ValidLen(wal) = Len(wal), disk' = Contents(wal),
           UNCHANGED <<sync, place, wal, ckpt, ckptDisk, attempts>>
    PROVE  IInv' /\ Restored(log', wal, ckpt, log, doubt, durable)
<1>1. /\ mem' = Replayed(wal, ckpt) /\ horizon' = Len(ckpt) /\ op' = NoOp
      /\ writer' = [Fresh EXCEPT !.write_pos = ValidLen(wal), !.last_seq = Len(mem')]
      /\ log' = mem' /\ durable' = Len(mem') /\ doubt' = {}
    BY Zenon DEF Opens, Return
<1>2. /\ log \in Seq(Ids) /\ Len(log) \in Nat /\ durable \in Nat /\ durable <= Len(log)
      /\ attempts \in 0 .. MaxAttempts /\ Len(wal) \in Nat /\ Len(wal) <= attempts
      /\ ckpt \in ckptDisk /\ Len(ckpt) \in Nat
      /\ Consistent(disk, ckptDisk, log, doubt, durable) /\ Cached(disk, wal)
    BY Facts, DurableBound, Zenon DEF IInv
<1>3. Restored(log', wal, ckpt, log, doubt, durable)
    BY <1>1, <1>2, ReplayedIs
<1>4. /\ Consistent(disk', ckptDisk, log', {}, Len(log')) /\ Cached(disk', wal)
      /\ \A i \in 1 .. Len(wal) : wal[i] \in Rec /\ wal[i].seq <= Len(log')
    BY <1>1, <1>2, OpenKeeps, Zenon
<1>5. /\ log' \in Seq(Ids) /\ Len(log') \in Nat /\ Len(ckpt) <= Len(log')
      /\ Len(ckpt) < Len(log') => Len(wal) >= 1 /\ wal[Len(wal)].seq = Len(log')
  <2>1. /\ log' \in Seq(Ids) /\ Len(ckpt) <= Len(log')
        /\ Len(ckpt) < Len(log') => Len(wal) >= 1 /\ wal[Len(wal)].seq = Len(log')
    BY <1>3, Zenon DEF Restored
  <2>2. Len(log') \in Nat
    BY <2>1, LenInNat, Zenon
  <2> QED BY <2>1, <2>2, Zenon
<1>6. Len(log') <= attempts
  <2>1. CASE Len(log') <= Len(log)
    BY <1>2, <1>5, <2>1, DurableBound
  <2>2. CASE Len(log') = Len(log) + 1
    <3>1. Len(log') \in 1 .. Len(log') /\ ~ (Len(log') <= Len(log))
        BY <1>2, <1>5, <2>2, SMTT(30)
    <3>2. log'[Len(log')] \in doubt
        BY <1>3, <3>1, Zenon DEF Restored
    <3>3. Len(log) < attempts
        BY <3>2, DurableBound, Zenon
    <3> QED BY <1>2, <2>2, <3>3
  <2>3. Len(log') \in durable .. Len(log) + 1
    BY <1>3, Zenon DEF Restored
  <2> QED BY <1>2, <1>5, <2>1, <2>2, <2>3
<1>7. writer' = [write_pos |-> Len(wal), pending |-> 0, last_seq |-> Len(log'), sealed |-> FALSE]
    BY <1>1, Zenon DEF Fresh
<1>8. /\ \A i \in Places : i > Len(wal) => disk'[i] = {None}
      /\ \A i \in Places : \A r \in disk'[i] \cap Rec : i <= Len(wal) /\ r = wal[i]
    BY <1>2, ContentsOf, Zenon
<1>9. \A i \in Places : \A r \in disk'[i] \cap Rec : i <= Len(wal) /\ r.seq <= Len(log')
    BY <1>2, <1>4, <1>8, Values, SMTT(30) DEF Places
<1>10. Steady'
    BY <1>2, <1>4, <1>5, <1>7, <1>8, <1>9, SMTT(30) DEF Steady, Settled, Clean
<1>11. Bounds'
  <2>1. \A i \in Places : i > attempts => disk'[i] = {None}
    BY <1>2, <1>8, Values, SMTT(30) DEF Places
  <2>2. /\ writer' \in [write_pos : 0 .. MaxAttempts, pending : 0 .. MaxAttempts,
                        last_seq : 0 .. MaxAttempts, sealed : BOOLEAN]
        /\ writer'.write_pos = Len(wal) /\ writer'.pending = 0
    BY <1>2, <1>5, <1>6, <1>7, Values, SMTT(30)
  <2>3. /\ horizon' \in 0 .. MaxAttempts /\ durable' \in 0 .. Len(log') /\ Len(log') <= attempts
        /\ mem' \in Seq(Ids) /\ log' \in Seq(Ids) /\ ckpt' \in ckptDisk'
    BY <1>1, <1>2, <1>5, <1>6, Values
  <2>4. op' \in [pc : PCs, id : 0 .. MaxAttempts, base : 0 .. MaxAttempts]
    BY <1>1, Values DEF NoOp, PCs
  <2>5. doubt' = {} /\ writer'.write_pos <= attempts /\ writer'.pending <= writer'.write_pos
    BY <1>1, <1>2, <2>2
  <2> QED BY <1>2, <2>1, <2>2, <2>3, <2>4, <2>5, Zenon DEF IInv, Bounds
<1>12. Steps'
    BY <1>1, <1>2, <1>10, SMTT(30) DEF Steps, At, Up, NoOp
<1> QED BY <1>1, <1>3, <1>4, <1>11, <1>12, Zenon DEF IInv

\* Every record is valid and the store opens.
LEMMA ReplayCleanKeeps ==
    ASSUME IInv, ReplayClean
    PROVE  IInv' /\ Restored(log', wal, ckpt, log, doubt, durable)
<1>1. /\ At("replay") /\ ValidLen(wal) = Len(wal) /\ Opens
      /\ UNCHANGED <<sync, place, wal, disk, ckpt, ckptDisk, attempts>>
    BY Zenon DEF ReplayClean, config, files, counters
<1>2. disk = Contents(wal) /\ ckptDisk = {ckpt}
    BY <1>1, Zenon DEF IInv, Steps
<1> QED BY <1>1, <1>2, OpensKeeps, Zenon

\* open cuts what follows the last valid record.
LEMMA TrimTailKeeps == ASSUME IInv, TrimTail PROVE IInv'
<1> DEFINE v == ValidLen(wal)
<1>1. /\ At("replay") /\ op' = [op EXCEPT !.pc = "trim_sync"] /\ wal' = SubSeq(wal, 1, v)
      /\ disk' = [i \in Places |-> IF i > v THEN disk[i] \cup {None} ELSE disk[i]]
      /\ UNCHANGED <<sync, place, mem, horizon, writer, ckpt, ckptDisk, attempts, log, doubt,
                     durable>>
    BY DEF TrimTail, SetLen, config, promise, counters, Goto
<1>2. disk = Contents(wal) /\ ckptDisk = {ckpt}
    BY <1>1, Zenon DEF IInv, Steps
<1>3. /\ op'.pc = "trim_sync"
      /\ op' \in [pc : PCs, id : 0 .. MaxAttempts, base : 0 .. MaxAttempts]
    BY <1>1, Zenon DEF IInv, Bounds, PCs
<1>4. v \in 0 .. Len(wal) /\ Intact(wal, v) /\ Len(wal) \in Nat
    BY Facts, ValidLenIs
<1>5. Cut(disk', wal, v, ckptDisk, log, doubt, durable)
  <2>1. \A j \in Places : Reaches(disk, durable, j) => j <= v
    <3>1. disk \in DiskType /\ Sorted(disk) /\ Cached(disk, wal)
        BY Zenon DEF IInv, Consistent
    <3>2. \A j \in Places : Reaches(disk, durable, j) => j \in 1 .. v
        BY <3>1, ReachValid, Zenon
    <3> HIDE DEF v
    <3> QED BY <1>4, <3>2
  <2>2. Consistent(disk, ckptDisk, log, doubt, durable) /\ Cached(disk, wal)
    BY DEF IInv
  <2> HIDE DEF v
  <2> QED BY <1>1, <1>4, <2>1, <2>2, CutKeeps, Zenon
<1> HIDE DEF v
<1>6. /\ Consistent(disk', ckptDisk, log, doubt, durable) /\ Cached(disk', wal')
      /\ Len(wal') = v /\ \A i \in 1 .. v : wal'[i] = wal[i]
    BY <1>1, <1>5, Zenon DEF Cut
<1>7. Intact(wal', Len(wal'))
    BY <1>4, <1>6, SMTT(30) DEF Intact
<1>8. Bounds'
  <2>1. \A i \in Places : i > attempts => disk'[i] = {None}
    BY <1>1 DEF IInv, Bounds
  <2> QED BY <1>1, <1>3, <2>1, Zenon DEF IInv, Bounds
<1>9. Steps'
    BY <1>1, <1>2, <1>3, <1>7, Zenon DEF Steps, At, Up
<1> QED BY <1>1, <1>6, <1>8, <1>9, Zenon DEF IInv

\* A file that is intact to its end is valid to its end.
LEMMA IntactValid ==
    ASSUME NEW w, Len(w) \in Nat, Intact(w, Len(w))
    PROVE  ValidLen(w) = Len(w)
<1>1. /\ ValidLen(w) \in 0 .. Len(w)
      /\ ValidLen(w) < Len(w) => ~ Intact(w, ValidLen(w) + 1)
    BY ValidLenIs, Zenon
<1>2. ASSUME NEW n \in 0 .. Len(w) PROVE Intact(w, n)
    BY DEF Intact
<1> QED BY <1>1, <1>2

\* The cut is durable and the store opens.
LEMMA TrimSyncKeeps ==
    ASSUME IInv, TrimSync
    PROVE  IInv' /\ Restored(log', wal, ckpt, log, doubt, durable)
<1>1. /\ At("trim_sync") /\ disk' = Contents(wal) /\ Opens
      /\ UNCHANGED <<sync, place, wal, ckpt, ckptDisk, attempts>>
    BY Zenon DEF TrimSync, SyncAll, config, counters
<1>2. Intact(wal, Len(wal)) /\ ckptDisk = {ckpt}
    BY <1>1, Zenon DEF IInv, Steps
<1>3. ValidLen(wal) = Len(wal)
    BY <1>2, Facts, IntactValid, Zenon
<1> QED BY <1>1, <1>2, <1>3, OpensKeeps, Zenon

\* open fails and starts over.
LEMMA TrimSyncFailsKeeps == ASSUME IInv, TrimSyncFails PROVE IInv'
<1>1. /\ op' = [op EXCEPT !.pc = "down"]
      /\ UNCHANGED <<sync, place, mem, horizon, writer, wal, disk, ckpt, ckptDisk, attempts, log,
                     durable, doubt>>
    BY DEF TrimSyncFails, Goto, FailureLeft, config, files, promise
<1>2. op'.pc = "down" /\ op' \in [pc : PCs, id : 0 .. MaxAttempts, base : 0 .. MaxAttempts]
    BY <1>1, Zenon DEF IInv, Bounds, PCs
<1>3. Bounds'
    BY <1>1, <1>2 DEF IInv, Bounds
<1>4. Steps'
    BY <1>2 DEF Steps, At, Up
<1> QED BY <1>1, <1>3, <1>4, Zenon DEF IInv

-----------------------------------------------------------------------------
(* Theorems *)

\* Every step keeps the invariant.
LEMMA NextKeeps == ASSUME IInv, [Next]_vars PROVE IInv'
<1>1. CASE UNCHANGED vars
  <2>1. UNCHANGED <<sync, place, mem, horizon, writer, wal, disk, ckpt, ckptDisk, op, attempts,
                    log, durable, doubt>>
    BY <1>1 DEF vars, config, files, counters, promise
  <2> QED BY <2>1, ZenonT(30) DEF IInv, Bounds, Steps, At, Up, Open, Steady, Settled, Clean
<1>2. CASE Next
    BY <1>2, StartCommitKeeps, AppendRefusedKeeps, AppendWriteKeeps, AppendFailsKeeps,
       AppendSyncKeeps, AppendSyncFailsKeeps, RollbackTruncateKeeps, RollbackSyncKeeps,
       RollbackFailsKeeps, FlushKeeps, FlushFailsKeeps, CheckpointRenameKeeps,
       DirectorySyncKeeps, DirectorySyncFailsKeeps, TruncateWalKeeps, TruncateSyncKeeps,
       TruncateFailsKeeps, ProcessStopsKeeps, MachineStopsKeeps, OpenBarriersKeeps,
       ReplayCleanKeeps, TrimTailKeeps, TrimSyncKeeps, TrimSyncFailsKeeps DEF Next
<1> QED BY <1>1, <1>2, Zenon

\* The invariant holds in every reachable state, when the checkpoint lives in
\* the directory of the WAL.
THEOREM Invariance == ASSUME Placements = {"wal_dir"} PROVE Spec => []IInv
BY Initially, NextKeeps, PTL DEF Spec

\* The state of the persistent store has its shape, and no counter leaves its
\* bounds.
THEOREM TypeCorrect == ASSUME Placements = {"wal_dir"} PROVE Spec => []TypeOK
<1>1. ASSUME IInv PROVE TypeOK
  <2>1. ckpt \in Seq(Ids) /\ Len(wal) <= MaxAttempts /\ place \in Placements
    BY <1>1, Facts, Values, Zenon DEF IInv, Bounds, Cached
  <2> QED BY <1>1, <2>1, Zenon DEF IInv, Bounds, TypeOK
<1> QED BY <1>1, Invariance, PTL

\* Between operations the cursor of an unsealed WalWriter is the end of the
\* file, its last sequence is the store's, and no record is torn.
THEOREM Cursors == ASSUME Placements = {"wal_dir"} PROVE Spec => []CursorsAgree
<1>1. ASSUME IInv PROVE CursorsAgree
  <2> SUFFICES ASSUME Ready
               PROVE  /\ writer.write_pos = Len(wal) /\ writer.last_seq = Len(mem)
                      /\ ValidLen(wal) = Len(wal)
    BY Zenon DEF CursorsAgree
  <2>1. mem = log /\ Steady
    BY <1>1, Zenon DEF Ready, IInv, Steps
  <2>2. Intact(wal, Len(wal))
    <3>1. /\ disk \in DiskType /\ Sorted(disk) /\ Cached(disk, wal)
          /\ \A i \in 1 .. Len(wal) : wal[i] \in Rec
        BY <1>1, <2>1, SteadyRecords, Zenon DEF IInv, Consistent
    <3>2. Len(wal) \in 0 .. Len(wal)
        BY <1>1, Facts
    <3> QED BY <3>1, <3>2, ValidRecords, Zenon
  <2>3. ValidLen(wal) = Len(wal)
    BY <1>1, <2>2, Facts, IntactValid, Zenon
  <2> QED BY <2>1, <2>3, Zenon DEF Steady
<1> QED BY <1>1, Invariance, PTL

\* Between operations the store shows the acknowledged commits and no other.
THEOREM View == ASSUME Placements = {"wal_dir"} PROVE Spec => []ViewIsAcknowledged
<1>1. ASSUME IInv PROVE ViewIsAcknowledged
    BY <1>1, Zenon DEF IInv, Steps, ViewIsAcknowledged
<1> QED BY <1>1, Invariance, PTL

\* The records that replay appends to the checkpoint follow it without a gap.
THEOREM Gapless == ASSUME Placements = {"wal_dir"} PROVE Spec => []ReplayHasNoGap
<1>1. ASSUME IInv PROVE ReplayHasNoGap
  <2>1. Follows(wal, ckpt)
    BY <1>1, Contiguous, Zenon DEF IInv, Bounds
  <2>2. Newer(wal, ckpt) \in Seq(Rec)
    <3>1. /\ ValidLen(wal) \in Nat /\ Skipped(wal, ckpt) \in 0 .. ValidLen(wal)
          /\ \A i \in 1 .. ValidLen(wal) : wal[i] \in Rec
        BY <1>1, ValidGrows, Zenon DEF IInv, Bounds
    <3> QED BY <3>1, SubSeqProperties, SMTT(30) DEF Newer
  <2>3. DOMAIN Newer(wal, ckpt) = 1 .. Len(Newer(wal, ckpt))
    BY <2>2, SMTT(30)
  <2>4. \A i \in DOMAIN Newer(wal, ckpt) : Newer(wal, ckpt)[i].seq = Len(ckpt) + i
    BY <2>1, <2>3, Zenon DEF Follows
  <2> QED BY <2>4, Zenon DEF ReplayHasNoGap
<1> QED BY <1>1, Invariance, PTL

-----------------------------------------------------------------------------
(* Refinement: what the callers of the store were promised *)

\* What replay restores is what DurableLog lets a recovery leave.
LEMMA RecoverIs ==
    ASSUME IInv, Restored(log', wal, ckpt, log, doubt, durable),
           durable' = Len(log'), doubt' = {}, UNCHANGED sync
    PROVE  Promise!Recover
<1>1. /\ log \in Seq(Ids) /\ Len(log) \in Nat /\ log' \in Seq(Ids) /\ durable \in Nat
      /\ Len(log') \in durable .. Len(log) + 1 /\ Len(log') \in Nat
  <2>1. log' \in Seq(Ids) /\ Len(log') \in durable .. Len(log) + 1
    BY Zenon DEF Restored
  <2>2. Len(log) \in Nat /\ Len(log') \in Nat
    BY <2>1, DurableBound, LenInNat, Zenon
  <2> QED BY <2>1, <2>2, DurableBound, Zenon
<1>2. \A i \in 1 .. Len(log') : /\ i <= Len(log) => log'[i] = log[i]
                                /\ ~ (i <= Len(log)) => log'[i] \in doubt
    BY Zenon DEF Restored
<1>3. CASE Len(log') <= Len(log)
  <2> DEFINE n == Len(log')
  <2>1. n \in durable .. Len(log)
    BY <1>1, <1>3, SMTT(30)
  <2>2. \A i \in 1 .. n : log[i] \in Ids /\ log'[i] = log[i]
    BY <1>1, <1>2, <1>3, SMTT(30)
  <2>3. /\ SubSeq(log, 1, n) \in Seq(Ids) /\ Len(SubSeq(log, 1, n)) = n
        /\ \A i \in 1 .. n : SubSeq(log, 1, n)[i] = log[i]
    BY <1>1, <2>2, SubSeqProperties, SMTT(30)
  <2>4. log' = SubSeq(log, 1, n)
    BY <1>1, <2>2, <2>3, SeqEqual, Zenon
  <2>5. log' \in {SubSeq(log, 1, k) : k \in durable .. Len(log)}
    BY <2>1, <2>4, Zenon
  <2> QED BY <2>5, Zenon DEF Promise!Recover
<1>4. CASE Len(log') = Len(log) + 1
  <2> DEFINE e == log'[Len(log) + 1]
             a == Append(log, e)
  <2>1. e \in doubt /\ e \in Ids
    BY <1>1, <1>2, <1>4, SMTT(30)
  <2> HIDE DEF e
  <2>2. /\ a \in Seq(Ids) /\ Len(a) = Len(log) + 1 /\ a[Len(log) + 1] = e
        /\ \A i \in 1 .. Len(log) : a[i] = log[i]
    BY <1>1, <2>1, AppendProperties, SMTT(30)
  <2> HIDE DEF a
  <2>3. \A i \in 1 .. Len(log') : log'[i] = a[i]
    <3> SUFFICES ASSUME NEW i \in 1 .. Len(log') PROVE log'[i] = a[i]
        BY Zenon
    <3>1. CASE i <= Len(log)
        BY <1>1, <1>2, <2>2, <3>1, SMTT(30)
    <3>2. CASE i = Len(log) + 1
        BY <2>2, <3>2, Zenon DEF e
    <3> QED BY <1>1, <1>4, <3>1, <3>2, SMTT(30)
  <2>4. log' = a
    BY <1>1, <1>4, <2>2, <2>3, SeqEqual, Zenon
  <2>5. log' \in {Append(log, id) : id \in doubt}
    BY <2>1, <2>4, Zenon DEF a
  <2> QED BY <2>5, Zenon DEF Promise!Recover
<1> QED BY <1>1, <1>3, <1>4, SMTT(30)

\* Every step is a step of DurableLog, or changes none of its variables.
LEMMA StepRefines == ASSUME IInv, [Next]_vars PROVE [Promise!Next]_(Promise!vars)
<1> DEFINE Same == UNCHANGED <<sync, log, durable, doubt>>
           Goal == [Promise!Next]_(Promise!vars)
<1> SUFFICES Goal
    OBVIOUS
<1>0. Same => Goal
    BY Zenon DEF Promise!vars
<1>1. CASE StartCommit
  <2>1. doubt = {} /\ doubt' = {attempts'} /\ UNCHANGED <<sync, log, durable>>
    BY <1>1, Zenon DEF StartCommit, Ready, IInv, Steps, At, config
  <2>2. attempts' \in Ids
    BY <1>1, Facts, Values, SMTT(30) DEF StartCommit, Ids
  <2> QED BY <2>1, <2>2, Zenon DEF Promise!Next, Promise!Attempt
<1>2. CASE AppendRefused \/ RollbackSync
  <2>1. doubt # {} /\ doubt' = {} /\ UNCHANGED <<sync, log, durable>>
    BY <1>2, Zenon DEF AppendRefused, RollbackSync, IInv, Steps, Open, config
  <2> QED BY <2>1, Zenon DEF Promise!Next, Promise!Fail
<1>3. CASE AppendWrite
  <2>1. CASE sync
    BY <1>0, <1>3, <2>1, Zenon DEF AppendWrite, promise, config
  <2>2. CASE ~ sync
    <3>1. /\ doubt = {op.id} /\ log' = Append(log, op.id) /\ doubt' = {}
          /\ UNCHANGED <<sync, durable>>
        BY <1>3, <2>2, Zenon DEF AppendWrite, Acknowledge, IInv, Steps, Open, config
    <3> QED BY <2>2, <3>1, Zenon DEF Promise!Next, Promise!Acknowledge
  <2> QED BY <2>1, <2>2, Zenon
<1>4. CASE AppendSync
  <2>1. /\ doubt = {op.id} /\ sync /\ log' = Append(log, op.id) /\ doubt' = {}
        /\ durable' = Len(log') /\ sync' = sync
    BY <1>4, Zenon DEF AppendSync, Acknowledge, IInv, Steps, Open, config
  <2> QED BY <2>1, Zenon DEF Promise!Next, Promise!Acknowledge
<1>5. CASE Flush \/ DirectorySync
  <2>1. durable' = Len(log) /\ UNCHANGED <<sync, log, doubt>>
    BY <1>5, Zenon DEF Flush, DirectorySync, config
  <2>2. durable \in Nat /\ Len(log) \in Nat /\ durable <= Len(log)
    BY DEF IInv, Bounds
  <2>3. CASE durable = Len(log)
    BY <1>0, <2>1, <2>3, Zenon
  <2>4. CASE durable # Len(log)
    <3>1. durable' \in durable + 1 .. Len(log)
        BY <2>1, <2>2, <2>4
    <3> QED BY <2>1, <3>1, Zenon DEF Promise!Next, Promise!Harden
  <2> QED BY <2>3, <2>4, Zenon
<1>6. CASE ReplayClean \/ TrimSync
  <2>1. durable' = Len(log') /\ doubt' = {} /\ UNCHANGED sync
    BY <1>6, Zenon DEF ReplayClean, TrimSync, Opens, config
  <2>2. Promise!Recover
    BY <1>6, <2>1, ReplayCleanKeeps, TrimSyncKeeps, RecoverIs, Zenon
  <2> QED BY <2>2 DEF Promise!Next
<1>7. CASE \/ AppendFails \/ AppendSyncFails \/ RollbackTruncate \/ RollbackFails \/ FlushFails
           \/ CheckpointRename \/ DirectorySyncFails \/ TruncateWal \/ TruncateSync \/ TruncateFails
  <2>1. Same
    BY <1>7, Zenon DEF AppendFails, AppendSyncFails, RollbackTruncate, RollbackFails, FlushFails,
       CheckpointRename, DirectorySyncFails, TruncateWal, TruncateSync, TruncateFails, config, promise
  <2> QED BY <1>0, <2>1, Zenon
<1>8. CASE \/ ProcessStops \/ MachineStops \/ OpenBarriers \/ TrimTail \/ TrimSyncFails
           \/ UNCHANGED vars
  <2>1. Same
    BY <1>8 DEF ProcessStops, MachineStops, Down, OpenBarriers, TrimTail, TrimSyncFails, config,
       promise, vars
  <2> QED BY <1>0, <2>1
<1> HIDE DEF Goal
<1> QED BY <1>1, <1>2, <1>3, <1>4, <1>5, <1>6, <1>7, <1>8, Zenon DEF Next

\* The WAL, the checkpoint and recovery implement a durable log: no crash and
\* no failed file operation loses a commit whose durability was acknowledged,
\* reorders commits, or brings back a commit that failed.
THEOREM Implements == ASSUME Placements = {"wal_dir"} PROVE Spec => ImplementsDurableLog
<1>1. ASSUME Init PROVE Promise!Init
    BY <1>1 DEF Init, Promise!Init
<1> QED BY <1>1, StepRefines, Invariance, PTL DEF Spec, ImplementsDurableLog, Promise!Spec
=============================================================================
