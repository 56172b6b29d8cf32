--------------------------- MODULE NioDiskProofs ---------------------------
(***************************************************************************)
(* The block device for any units, slots, disk sizes, cache, batch and     *)
(* read-ahead sizes, retries and disturbances: types, the BPB and the unit *)
(* map, where writes go, and that the cache and what a request reports as  *)
(* done agree with the disks but for the causes that NioDisk names.        *)
(***************************************************************************)
EXTENDS NioDisk, FiniteSetTheorems, WellFoundedInduction, TLAPS

(* An exchange is of at least one sector, of no more than the request has    *)
(* left, and a read asks for no less than it hands over.                     *)
LEMMA BatchNumbers ==
    ASSUME TypeOK, remaining > 0, sector < bpbSectors[req.unit]
    PROVE  /\ sector \in Nat /\ req.unit \in Units /\ slot \in Slots
           /\ batch \in Nat \ {0} /\ fetch \in Nat \ {0} /\ batch <= fetch
           /\ done \in Nat /\ done + batch <= req.count
<1>1. /\ req.unit \in Units /\ req.lba \in Nat /\ req.count \in Nat
      /\ bpbSectors[req.unit] \in Nat /\ done \in 0..req.count
      /\ batchLimit \in Nat \ {0} /\ readAheadLimit \in Nat \ {0}
      /\ unitSlot[req.unit] \in Slots
  BY DiskAssumption DEF TypeOK
<1>2. sector \in Nat /\ done \in Nat /\ slot \in Slots
  BY <1>1 DEF sector, slot
<1>3. remaining \in Nat \ {0} /\ bpbSectors[req.unit] - sector \in Nat \ {0}
  BY <1>1, <1>2 DEF remaining
<1>4. \A a, b \in Nat \ {0} : /\ Smaller(a, b) \in Nat \ {0} /\ Larger(a, b) \in Nat \ {0}
                              /\ Smaller(a, b) <= a /\ Smaller(a, b) <= b /\ a <= Larger(a, b)
  BY DEF Smaller, Larger
<1>5. batch \in Nat \ {0} /\ batch <= remaining /\ batch <= bpbSectors[req.unit] - sector
  <2>1. Smaller(remaining, batchLimit) \in Nat \ {0} /\ Smaller(remaining, batchLimit) <= remaining
    BY <1>1, <1>3, <1>4
  <2> QED
    BY <1>3, <1>4, <2>1 DEF batch
<1>6. fetch \in Nat \ {0} /\ batch <= fetch
  <2>1. Larger(batch, readAheadLimit) \in Nat \ {0} /\ batch <= Larger(batch, readAheadLimit)
    BY <1>1, <1>4, <1>5
  <2> QED
    BY <1>3, <1>5, <2>1 DEF fetch, Smaller
<1>7. done + batch <= req.count
  BY <1>1, <1>2, <1>3, <1>5 DEF remaining
<1> QED
  BY <1>1, <1>2, <1>5, <1>6, <1>7

(* A disk's contents, and what is read of it. *)
LEMMA ContentOf ==
    ASSUME content \in Contents, NEW s \in Slots
    PROVE  content[s] \in [0..(Size[s] - 1) -> Data] /\ Size[s] \in Nat
  BY DiskAssumption DEF Contents, Disks

(* What the device reads is what the disk holds. *)
LEMMA SectorsAreData ==
    ASSUME content \in Contents, NEW s \in Slots, NEW l \in Nat, NEW n \in Nat, Readable(s, l, n)
    PROVE  /\ Sectors(s, l, n) \in Seq(Data) /\ Len(Sectors(s, l, n)) = n
           /\ \A k \in 1..n : /\ l + k - 1 \in DOMAIN content[s]
                              /\ Sectors(s, l, n)[k] = content[s][l + k - 1]
<1>1. content[s] \in [0..(Size[s] - 1) -> Data] /\ Size[s] \in Nat
  BY ContentOf
<1>2. \A k \in 1..n : l + k - 1 \in 0..(Size[s] - 1)
  BY <1>1 DEF Readable
<1>3. \A k \in 1..n : content[s][l + k - 1] \in Data
  BY <1>1, <1>2
<1>4. Sectors(s, l, n) \in [1..n -> Data]
  BY <1>3 DEF Sectors
<1>5. Sectors(s, l, n) \in Seq(Data) /\ Len(Sectors(s, l, n)) = n
  BY <1>4
<1>6. \A k \in 1..n : l + k - 1 \in DOMAIN content[s]
  BY <1>1, <1>2
<1>7. \A k \in 1..n : Sectors(s, l, n)[k] = content[s][l + k - 1]
  BY DEF Sectors
<1> QED
  BY <1>5, <1>6, <1>7

(* cache_store *)
LEMMA StoredEntries ==
    ASSUME TypeOK, NEW u \in Units, NEW l \in Nat, NEW data \in Seq(Data)
    PROVE  /\ Stored(u, l, data) \in [0..(CacheSize - 1) -> Entries]
           /\ StoredNext(data) \in 0..(CacheSize - 1)
           /\ \A i \in 0..(CacheSize - 1) :
                \/ Stored(u, l, data)[i] = cache[i]
                \/ \E k \in 0..(Len(data) - 1) :
                     Stored(u, l, data)[i] = [valid |-> TRUE, unit |-> u, lba |-> l + k, data |-> data[k + 1]]
<1>1. /\ CacheSize \in Nat \ {0} /\ DOMAIN cache = 0..(CacheSize - 1)
      /\ cacheNext \in Nat /\ \A i \in DOMAIN cache : cache[i] \in Entries
  BY DiskAssumption DEF TypeOK
<1>2. \A x \in Int : x % CacheSize \in 0..(CacheSize - 1)
  BY <1>1
<1>3. ASSUME NEW i \in 0..(CacheSize - 1)
      PROVE  /\ Stored(u, l, data)[i] \in Entries
             /\ \/ Stored(u, l, data)[i] = cache[i]
                \/ \E k \in 0..(Len(data) - 1) :
                     Stored(u, l, data)[i] = [valid |-> TRUE, unit |-> u, lba |-> l + k, data |-> data[k + 1]]
  <2> DEFINE k == (i - cacheNext) % CacheSize
  <2>1. k \in Nat
    BY <1>1, <1>2
  <2>2. Stored(u, l, data)[i] = IF k < Len(data) THEN [valid |-> TRUE, unit |-> u, lba |-> l + k, data |-> data[k + 1]]
                                ELSE cache[i]
    BY <1>1 DEF Stored
  <2> HIDE DEF k
  <2>3. CASE k < Len(data)
    <3>1. k \in 0..(Len(data) - 1) /\ k + 1 \in 1..Len(data)
      BY <2>1, <2>3
    <3>2. data[k + 1] \in Data
      BY <3>1
    <3> DEFINE e == [valid |-> TRUE, unit |-> u, lba |-> l + k, data |-> data[k + 1]]
    <3>3. Stored(u, l, data)[i] = e
      BY <2>2, <2>3
    <3>4. l + k \in Nat
      BY <2>1
    <3>5. e \in Entries
      BY <3>2, <3>4 DEF Entries, Lbas
    <3> QED
      BY <3>1, <3>3, <3>5
  <2>4. CASE ~(k < Len(data))
    BY <1>1, <2>2, <2>4
  <2> QED
    BY <2>3, <2>4
<1>4. Stored(u, l, data) \in [0..(CacheSize - 1) -> Entries]
  BY <1>1, <1>3 DEF Stored
<1>5. StoredNext(data) \in 0..(CacheSize - 1)
  <2>1. cacheNext + Len(data) \in Int
    BY <1>1
  <2> QED
    BY <1>2, <2>1 DEF StoredNext
<1> QED
  BY <1>3, <1>4, <1>5

(* cache_update_or_invalidate *)
LEMMA UpdatedEntries ==
    ASSUME TypeOK, NEW u \in Units, NEW l \in Nat, NEW data \in Seq(Data)
    PROVE  /\ Updated(u, l, data) \in [0..(CacheSize - 1) -> Entries]
           /\ \A i \in 0..(CacheSize - 1) :
                /\ Updated(u, l, data)[i].valid => cache[i].valid
                /\ Updated(u, l, data)[i].unit = cache[i].unit
                /\ Updated(u, l, data)[i].lba = cache[i].lba
                /\ cache[i].unit # u \/ cache[i].lba \notin l..(l + Len(data) - 1) =>
                     Updated(u, l, data)[i] = cache[i]
<1>1. DOMAIN cache = 0..(CacheSize - 1) /\ \A i \in DOMAIN cache : cache[i] \in Entries
  BY DEF TypeOK
<1>2. ASSUME NEW i \in 0..(CacheSize - 1)
      PROVE  /\ Updated(u, l, data)[i] \in Entries
             /\ Updated(u, l, data)[i].valid => cache[i].valid
             /\ Updated(u, l, data)[i].unit = cache[i].unit
             /\ Updated(u, l, data)[i].lba = cache[i].lba
             /\ cache[i].unit # u \/ cache[i].lba \notin l..(l + Len(data) - 1) =>
                  Updated(u, l, data)[i] = cache[i]
  <2>1. cache[i] \in Entries
    BY <1>1
  <2>2. PICK x \in Nat : x = cache[i].lba
    BY <2>1 DEF Entries, Lbas
  <2>3. PICK k \in Int : k = x - l
    OBVIOUS
  <2>4. x = l + k /\ (k \in 0..(Len(data) - 1) => x \in l..(l + Len(data) - 1))
    BY <2>3
  <2>5. \/ Updated(u, l, data)[i] = cache[i]
        \/ /\ k \in 0..(Len(data) - 1) /\ cache[i].valid /\ cache[i].unit = u
           /\ Updated(u, l, data)[i] = [cache[i] EXCEPT !.data = data[k + 1]]
    BY <1>1, <2>2, <2>3 DEF Updated, Copies
  <2>6. CASE /\ k \in 0..(Len(data) - 1) /\ cache[i].valid /\ cache[i].unit = u
             /\ Updated(u, l, data)[i] = [cache[i] EXCEPT !.data = data[k + 1]]
    <3>1. data[k + 1] \in Data
      BY <2>6
    <3>2. [cache[i] EXCEPT !.data = data[k + 1]] \in Entries
      BY <2>1, <3>1 DEF Entries
    <3>3. /\ Updated(u, l, data)[i].unit = cache[i].unit
          /\ Updated(u, l, data)[i].lba = cache[i].lba
      BY <2>1, <2>6 DEF Entries
    <3>4. x \in l..(l + Len(data) - 1)
      BY <2>4, <2>6
    <3> QED
      BY <2>2, <2>6, <3>2, <3>3, <3>4
  <2> QED
    BY <2>1, <2>5, <2>6
<1>3. Updated(u, l, data) \in [0..(CacheSize - 1) -> Entries]
  BY <1>1, <1>2 DEF Updated
<1> QED
  BY <1>2, <1>3

(* What a write, or the first k sectors of one, makes of the disks. *)
LEMMA WrittenContents ==
    ASSUME content \in Contents, NEW s \in Slots, NEW l \in Nat, NEW data \in Seq(Data),
           NEW k \in Nat, k <= Len(data)
    PROVE  /\ Written(s, l, data, k) \in Contents
           /\ \A t \in Slots : t # s => Written(s, l, data, k)[t] = content[t]
           /\ DOMAIN Written(s, l, data, k)[s] = DOMAIN content[s]
           /\ \A x \in DOMAIN content[s] :
                Written(s, l, data, k)[s][x] = IF x - l \in 0..(k - 1) THEN data[x - l + 1] ELSE content[s][x]
<1> DEFINE w == [x \in DOMAIN content[s] |-> IF x - l \in 0..(k - 1) THEN data[x - l + 1] ELSE content[s][x]]
<1>1. content \in [Slots -> UNION {Disks(t) : t \in Slots}] /\ \A t \in Slots : content[t] \in Disks(t)
  BY DEF Contents
<1>2. w \in Disks(s)
  <2>1. content[s] \in [0..(Size[s] - 1) -> Data]
    BY <1>1 DEF Disks
  <2>2. ASSUME NEW x \in 0..(Size[s] - 1)
        PROVE  (IF x - l \in 0..(k - 1) THEN data[x - l + 1] ELSE content[s][x]) \in Data
    <3>1. CASE x - l \in 0..(k - 1)
      <4>1. x - l + 1 \in 1..Len(data)
        BY <3>1
      <4> QED
        BY <3>1, <4>1
    <3> QED
      BY <2>1, <3>1
  <2> QED
    BY <2>1, <2>2 DEF Disks
<1>3. Written(s, l, data, k) = [content EXCEPT ![s] = w]
  BY DEF Written
<1>4. DOMAIN w = DOMAIN content[s]
  OBVIOUS
<1>5. \A x \in DOMAIN content[s] : w[x] = IF x - l \in 0..(k - 1) THEN data[x - l + 1] ELSE content[s][x]
  OBVIOUS
<1> HIDE DEF w
<1>6. Written(s, l, data, k) \in Contents
  <2>1. \A t \in Slots : [content EXCEPT ![s] = w][t] \in Disks(t)
    BY <1>1, <1>2
  <2>2. [content EXCEPT ![s] = w] \in [Slots -> UNION {Disks(t) : t \in Slots}]
    BY <1>1, <1>2
  <2> QED
    BY <1>3, <2>1, <2>2 DEF Contents
<1>7. Written(s, l, data, k)[s] = w /\ \A t \in Slots : t # s => Written(s, l, data, k)[t] = content[t]
  BY <1>1, <1>3
<1> QED
  BY <1>4, <1>5, <1>6, <1>7

-----------------------------------------------------------------------------
(* Types, and how much of the buffer a request has come to use. *)

Progress ==
    /\ pc = "idle" => done = 0
    /\ pc = "write" => Len(buf) = req.count
    /\ pc = "read" => Len(buf) = done
Typed == TypeOK /\ Progress

(* The values of what is empty have the types of what is not. *)
LEMMA Nothings == Empty \in Entries /\ NoRequest \in [unit: Units, lba: Nat, count: Nat] /\ << >> \in Seq(Data)
  BY DiskAssumption DEF Empty, Entries, Lbas, NoRequest

(* Nothing, and sectors, as answers. *)
LEMMA AnswersAre ==
    /\ NoAnswer \in Answers
    /\ \A op \in {"read", "write", "boot"}, data \in Seq(Data) :
          (op = "boot" => Len(data) = 1) => DataAnswer(op, data) \in Answers
  BY DEF Answers, NoAnswer, DataAnswer

(* What an exchange brings, and leaves to come, are answers. *)
LEMMA ExchangedTyped ==
    ASSUME NEW op, NEW waiting \in Answers, NEW own \in Answers, NEW o \in Exchanged(op, waiting, own)
    PROVE  o.got \in Answers /\ o.late \in Answers
  BY AnswersAre DEF Exchanged, Unanswered

(* Disk information is one of Flags, or unknown; what is cached is used. *)
LEMMA InfoTyped ==
    ASSUME TypeOK, NEW u \in Units, NEW o \in InfoOutcomes(u)
    PROVE  /\ o.got.info \in Flags \cup {Unknown} /\ o.late \in Answers
           /\ infoCache[u] # Unknown => o.got.info = infoCache[u]
<1>1. infoCache[u] \in Flags \cup {Unknown} /\ flags[unitSlot[u]] \in Flags /\ late \in Answers
  BY DEF TypeOK
<1>2. CASE infoCache[u] # Unknown
  BY <1>1, <1>2 DEF InfoOutcomes, InfoAnswer
<1>3. CASE infoCache[u] = Unknown
  <2>1. InfoAnswer(flags[unitSlot[u]]) \in Answers
    BY <1>1 DEF Answers, InfoAnswer
  <2>2. o.got \in Answers /\ o.late \in Answers
    BY <1>1, <1>3, <2>1, ExchangedTyped DEF InfoOutcomes
  <2> QED
    BY <1>3, <2>2 DEF Answers
<1> QED
  BY <1>2, <1>3

(* The driver starts well typed. *)
LEMMA InitTyped == Init => Typed
<1> SUFFICES ASSUME Init PROVE Typed
  OBVIOUS
<1>1. /\ CacheSize \in Nat \ {0} /\ BatchSectors \in Nat \ {0} /\ ReadAhead \in Nat \ {0} /\ IoRetries \in Nat
      /\ DefaultSize \in Nat \ {0}
  BY DiskAssumption
<1>2. cache \in [0..(CacheSize - 1) -> Entries] /\ cacheNext \in DOMAIN cache
  BY <1>1, Nothings DEF Init
<1>3. late \in Answers
  BY AnswersAre DEF Init
<1>4. req.count = 0
  BY DEF Init, NoRequest
<1>5. /\ content \in Contents /\ flags \in [Slots -> Flags] /\ unitSlot \in [Units -> Slots]
      /\ infoCache \in [Units -> Flags \cup {Unknown}] /\ mediaChanged \in [Units -> BOOLEAN]
      /\ bpbSectors \in [Units -> Nat]
  BY <1>1 DEF Init
<1>6. /\ batchLimit \in 1..BatchSectors /\ readAheadLimit \in 1..ReadAhead
      /\ done \in 0..req.count /\ attempt \in 0..IoRetries
  BY <1>1, <1>4 DEF Init
<1>7. /\ req \in [unit: Units, lba: Nat, count: Nat] /\ buf \in Seq(Data)
  BY Nothings DEF Init
<1>8. /\ pc \in {"idle", "read", "write"} /\ status = "none" /\ tainted \subseteq (Units \X Nat)
      /\ bpbAge \in [Units -> Ages]
  BY DEF Init, Ages
<1>9. TypeOK
  BY <1>2, <1>3, <1>5, <1>6, <1>7, <1>8 DEF TypeOK
<1>10. Progress
  BY DEF Init, Progress
<1> QED
  BY <1>9, <1>10 DEF Typed

(* A request that is handed back leaves everything well typed. *)
LEMMA ReturnTyped ==
    ASSUME Typed, UNCHANGED driver, content' \in Contents, flags' = flags,
           late' \in Answers,
           tainted' \subseteq (Units \X Nat), bpbAge' \in [Units -> Ages],
           NEW word \in {"OP_COMPLETE", "NOT_FOUND", "GENERAL_FAIL"}, Return(word)
    PROVE  Typed'
<1>1. req' \in [unit: Units, lba: Nat, count: Nat] /\ req'.count = 0 /\ buf' \in Seq(Data) /\ pc' = "idle"
      /\ done' = 0 /\ attempt' = 0 /\ status' = word
  BY Nothings DEF Return, NoRequest
<1>2. done' \in 0..req'.count /\ attempt' \in 0..IoRetries
  BY <1>1, DiskAssumption
<1>3. /\ flags' \in [Slots -> Flags] /\ unitSlot' \in [Units -> Slots]
      /\ cache' \in [0..(CacheSize - 1) -> Entries] /\ cacheNext' \in DOMAIN cache'
      /\ infoCache' \in [Units -> Flags \cup {Unknown}] /\ mediaChanged' \in [Units -> BOOLEAN]
      /\ batchLimit' \in 1..BatchSectors /\ readAheadLimit' \in 1..ReadAhead
      /\ bpbSectors' \in [Units -> Nat]
      /\ bpbAge' \in [Units -> Ages]
  BY DEF Typed, TypeOK, driver
<1>4. TypeOK'
  BY <1>1, <1>2, <1>3 DEF TypeOK
<1>5. Progress'
  BY <1>1 DEF Progress
<1> QED
  BY <1>4, <1>5 DEF Typed

(* So does the end of Input_cmd and Output_cmd. *)
LEMMA FinishTyped ==
    ASSUME Typed, UNCHANGED driver, content' \in Contents, flags' = flags,
           late' \in Answers,
           tainted' \subseteq (Units \X Nat), bpbAge' \in [Units -> Ages], Finish
    PROVE  Typed'
  BY ReturnTyped DEF Finish

(* The sectors a read brings are put into the ring, the caller's share of  *)
(* them into the buffer.                                                   *)
LEMMA FetchedTyped ==
    ASSUME Typed, Reading, NEW data \in Seq(Data), Len(data) = fetch, Fetched(data),
           late' \in Answers,
           tainted' \subseteq (Units \X Nat)
    PROVE  Typed'
<1>1. /\ sector \in Nat /\ req.unit \in Units /\ batch \in Nat \ {0} /\ fetch \in Nat \ {0}
      /\ batch <= fetch /\ done \in Nat /\ done + batch <= req.count
  BY BatchNumbers DEF Typed, Reading
<1>2. cache' \in [0..(CacheSize - 1) -> Entries] /\ cacheNext' \in 0..(CacheSize - 1)
  BY <1>1, StoredEntries DEF Typed, Fetched
<1>3. SubSeq(data, 1, batch) \in Seq(Data) /\ Len(SubSeq(data, 1, batch)) = batch
  BY <1>1
<1>4. buf' \in Seq(Data) /\ Len(buf') = Len(buf) + batch
  BY <1>3 DEF Fetched, Typed, TypeOK
<1>5. pc = "read" /\ Len(buf) = done /\ pc' = pc /\ req' = req /\ done' = done + batch /\ attempt' = 0
  BY DEF Reading, Typed, Progress, Fetched
<1>6. done' \in 0..req'.count /\ attempt' \in 0..IoRetries
  BY <1>1, <1>5, DiskAssumption DEF Typed, TypeOK
<1>7. TypeOK'
  BY <1>2, <1>4, <1>5, <1>6 DEF Typed, TypeOK, Fetched
<1> QED
  BY <1>4, <1>5, <1>7 DEF Typed, Progress

(* The BPBs keep their types when a disk changes. *)
LEMMA OutdateTyped == ASSUME TypeOK, Outdate PROVE bpbAge' \in [Units -> Ages]
  BY DEF TypeOK, Outdate, Ages

(* A batch taken for written leaves everything well typed. *)
LEMMA AcknowledgedTyped ==
    ASSUME Typed, Writing, Acknowledged, content' \in Contents, bpbAge' \in [Units -> Ages],
           late' \in Answers,
           tainted' \subseteq (Units \X Nat)
    PROVE  Typed'
<1>1. /\ sector \in Nat /\ req.unit \in Units /\ batch \in Nat \ {0}
      /\ done \in Nat /\ done + batch <= req.count
  BY BatchNumbers DEF Typed, Writing
<1>2. output \in Seq(Data)
  BY <1>1 DEF output, Typed, TypeOK, Progress, Writing
<1>3. cache' \in [0..(CacheSize - 1) -> Entries]
  BY <1>1, <1>2, UpdatedEntries DEF Typed, Acknowledged
<1>4. pc = "write" /\ pc' = pc /\ req' = req /\ done' = done + batch /\ buf' = buf
  BY DEF Writing, Acknowledged
<1>5. done' \in 0..req'.count
  BY <1>1, <1>4
<1>6. cacheNext' \in DOMAIN cache'
  BY <1>3 DEF Acknowledged, Typed, TypeOK
<1>7. TypeOK'
  BY <1>3, <1>4, <1>5, <1>6 DEF Typed, TypeOK, Acknowledged
<1> QED
  BY <1>4, <1>7 DEF Typed, Progress

(* Media_check_cmd keeps the types. *)
LEMMA MediaCheckTyped == ASSUME Typed, NEW u \in Units, MediaCheck(u) PROVE Typed'
<1>1. UNCHANGED <<pc, req, done, attempt, buf, flags, content, unitSlot, cache, cacheNext, batchLimit,
                  readAheadLimit, bpbSectors, tainted>>
  BY DEF MediaCheck, Idle
<1>2. bpbAge' \in [Units -> Ages]
  BY DEF MediaCheck, Tell, Typed, TypeOK, Ages
<1>3. /\ infoCache' \in [Units -> Flags \cup {Unknown}] /\ mediaChanged' \in [Units -> BOOLEAN]
      /\ late' \in Answers
  BY InfoTyped DEF MediaCheck, Typed, TypeOK
<1>4. status' \in {"OP_COMPLETE", "NOT_READY"}
  BY DEF MediaCheck
<1> QED
  BY <1>1, <1>2, <1>3, <1>4 DEF Typed, TypeOK, Progress

(* SET_UNIT_MAP keeps the types. *)
LEMMA SetUnitMapTyped == ASSUME Typed, NEW u \in Units, NEW s \in Slots, SetUnitMap(u, s) PROVE Typed'
<1>1. UNCHANGED <<pc, req, done, attempt, buf, device, cacheNext, batchLimit, readAheadLimit,
                  bpbSectors>>
  BY DEF SetUnitMap, Idle
<1>2. cache' \in [0..(CacheSize - 1) -> Entries]
  BY Nothings DEF SetUnitMap, Invalidated, Typed, TypeOK
<1>3. /\ infoCache' \in [Units -> Flags \cup {Unknown}] /\ mediaChanged' \in [Units -> BOOLEAN]
      /\ unitSlot' \in [Units -> Slots] /\ status' = "OP_COMPLETE"
      /\ tainted' \subseteq (Units \X Nat)
      /\ bpbAge' \in [Units -> Ages]
  BY DEF SetUnitMap, Typed, TypeOK, Ages
<1>4. cacheNext' \in DOMAIN cache'
  BY <1>1, <1>2 DEF Typed, TypeOK
<1> QED
  BY <1>1, <1>2, <1>3, <1>4 DEF Typed, TypeOK, Progress, device

(* A request that begins is well typed, and its buffer as long as it says. *)
LEMMA StartTyped ==
    ASSUME Typed, NEW op \in {"read", "write"}, NEW u \in Units, NEW l \in Nat, NEW n \in Nat,
           Start(op, u, l, n), buf' \in Seq(Data), Len(buf') = IF op = "read" THEN 0 ELSE n,
           infoCache' \in [Units -> Flags \cup {Unknown}], late' \in Answers,
           UNCHANGED <<flags, content, unitSlot, cache, cacheNext, mediaChanged, batchLimit, readAheadLimit,
                       bpbSectors, history>>
    PROVE  Typed'
<1>1. pc' = op /\ req' = [unit |-> u, lba |-> l, count |-> n] /\ done' = 0 /\ attempt' = 0 /\ status' = "none"
  BY DEF Start
<1>2. req' \in [unit: Units, lba: Nat, count: Nat] /\ req'.count = n
  BY <1>1
<1>3. done' \in 0..req'.count /\ attempt' \in 0..IoRetries
  BY <1>1, <1>2, DiskAssumption
<1>4. TypeOK'
  BY <1>1, <1>2, <1>3 DEF Typed, TypeOK, history
<1>5. Progress'
  BY <1>1, <1>2 DEF Progress
<1> QED
  BY <1>4, <1>5 DEF Typed

(* Input_cmd begins well typed. *)
LEMMA StartReadTyped ==
    ASSUME Typed, NEW u \in Units, NEW l \in Nat, NEW n \in Nat, StartRead(u, l, n) PROVE Typed'
<1>1. buf' \in Seq(Data) /\ Len(buf') = 0
  BY DEF StartRead
<1>2. infoCache' \in [Units -> Flags \cup {Unknown}] /\ late' \in Answers
  BY DEF StartRead, driver, device, Typed, TypeOK
<1> QED
  BY <1>1, <1>2, StartTyped DEF StartRead, driver, device

(* Output_cmd begins well typed, or refuses. *)
LEMMA StartWriteTyped ==
    ASSUME Typed, NEW u \in Units, NEW l \in Nat, NEW n \in Nat, NEW data \in [1..n -> Data],
           StartWrite(u, l, data)
    PROVE  Typed'
<1>1. data \in Seq(Data) /\ Len(data) = n
  OBVIOUS
<1>2. infoCache' \in [Units -> Flags \cup {Unknown}] /\ late' \in Answers
  BY InfoTyped DEF StartWrite, Typed, TypeOK
<1>3. CASE Start("write", u, l, Len(data)) /\ buf' = data
  BY <1>1, <1>2, <1>3, StartTyped DEF StartWrite
<1>4. CASE status' \in {"NOT_READY", "WRITE_PROTECT"} /\ UNCHANGED <<pc, req, done, attempt, buf>>
  BY <1>2, <1>4 DEF StartWrite, Typed, TypeOK, Progress, history
<1> QED
  BY <1>3, <1>4 DEF StartWrite

(* A set of natural numbers that is not empty has a least element. *)
LEMMA Least == ASSUME NEW S \in SUBSET Nat, S # {} PROVE \E n \in S : \A m \in S : n <= m
<1> DEFINE R == OpToRel(<, Nat)
<1>1. \A m, n \in Nat : m < n => <<m, n>> \in R
  BY DEF OpToRel
<1>2. IsWellFoundedOn(R, Nat)
  BY NatLessThanWellFounded
<1> HIDE DEF R
<1>3. PICK n \in S : \A m \in S : ~(<<m, n>> \in R)
  BY <1>2, WFMin
<1>4. ASSUME NEW m \in S PROVE n <= m
  <2>1. m \in Nat /\ n \in Nat /\ ~(m < n)
    BY <1>1, <1>3
  <2> QED
    BY <2>1
<1> QED
  BY <1>4

(* cache_find finds a copy where there is one. *)
LEMMA FirstCopyIsCopy ==
    ASSUME TypeOK, NEW u \in Units, NEW l \in Nat, Copies(u, l) # {}
    PROVE  FirstCopy(u, l) \in Copies(u, l)
<1> DEFINE S == Copies(u, l)
<1>1. S \in SUBSET Nat
  BY DiskAssumption DEF TypeOK, Copies
<1>2. S # {}
  OBVIOUS
<1> HIDE DEF S
<1>3. \E n \in S : \A m \in S : n <= m
  BY <1>1, <1>2, Least
<1> QED
  BY <1>3 DEF S, FirstCopy

(* Sector 0, from the device or from an answer that came late. *)
LEMMA ReadBootIs ==
    ASSUME Typed, NEW u \in Units, NEW waiting \in Answers, ReadBoot(u, waiting)
    PROVE  /\ late' \in Answers
           /\ \/ \E d \in Data :
                  /\ cache' = Stored(u, 0, <<d>>) /\ cacheNext' = StoredNext(<<d>>) /\ BpbFrom(u, d)
                  /\ tainted' = IF OnDisk(u, 0, d) THEN tainted ELSE tainted \cup {<<u, 0>>}
              \/ status' = "READ_FAULT" /\ UNCHANGED <<cache, cacheNext, bpbSectors, tainted, bpbAge>>
<1>1. BootAnswer(u) \in Answers
  <2>1. unitSlot[u] \in Slots /\ content \in Contents
    BY DEF Typed, TypeOK
  <2>2. ASSUME Readable(unitSlot[u], 0, 1)
        PROVE  Sectors(unitSlot[u], 0, 1) \in Seq(Data) /\ Len(Sectors(unitSlot[u], 0, 1)) = 1
    <3>1. PICK s \in Slots : s = unitSlot[u]
      BY <2>1
    <3>2. Readable(s, 0, 1) /\ content \in Contents
      BY <2>1, <2>2, <3>1
    <3>3. 0 \in Nat /\ 1 \in Nat
      OBVIOUS
    <3>4. Sectors(s, 0, 1) \in Seq(Data) /\ Len(Sectors(s, 0, 1)) = 1
      BY <3>2, <3>3, SectorsAreData
    <3> QED
      BY <3>1, <3>4
  <2> QED
    BY <2>2, AnswersAre DEF BootAnswer
<1>2. PICK r \in Exchanged("boot", waiting, BootAnswer(u)) :
        /\ late' = r.late
        /\ IF r.got.op = "boot"
           THEN /\ cache' = Stored(u, 0, r.got.data) /\ cacheNext' = StoredNext(r.got.data)
                /\ BpbFrom(u, r.got.data[1])
                /\ tainted' = IF OnDisk(u, 0, r.got.data[1]) THEN tainted ELSE tainted \cup {<<u, 0>>}
           ELSE status' = "READ_FAULT" /\ UNCHANGED <<cache, cacheNext, bpbSectors, tainted, bpbAge>>
  BY DEF ReadBoot
<1>3. r.got \in Answers /\ r.late \in Answers
  BY <1>1, ExchangedTyped
<1>4. CASE r.got.op = "boot"
  <2>1. r.got.data \in Seq(Data) /\ Len(r.got.data) = 1
    BY <1>3, <1>4 DEF Answers
  <2>2. r.got.data[1] \in Data /\ r.got.data = <<r.got.data[1]>>
    BY <2>1
  <2> QED
    BY <1>2, <1>3, <1>4, <2>2
<1> QED
  BY <1>2, <1>3, <1>4

(* Build_bpb_cmd keeps the old table, or takes one from a sector 0 that is   *)
(* cached, which it may have just become, or fails.                        *)
LEMMA BuildBpbIs ==
    ASSUME Typed, NEW u \in Units, BuildBpb(u)
    PROVE  /\ UNCHANGED <<pc, req, done, attempt, buf, flags, content, unitSlot, mediaChanged, batchLimit,
                          readAheadLimit>>
           /\ late' \in Answers
           /\ \E info \in Flags \cup {Unknown} :
                /\ infoCache' = [infoCache EXCEPT ![u] = info]
                /\ infoCache[u] # Unknown => info = infoCache[u]
                /\ \/ /\ NoDisk(info) /\ status' = "OP_COMPLETE"
                      /\ bpbAge' = [bpbAge EXCEPT ![u] = IF @ = "current" THEN @ ELSE "kept"]
                      /\ UNCHANGED <<cache, cacheNext, bpbSectors, tainted>>
                   \/ /\ ~NoDisk(info)
                      /\ \E d \in Data :
                           /\ BpbFrom(u, d) /\ UNCHANGED <<cache, cacheNext, tainted>>
                           /\ \E i \in 0..(CacheSize - 1) :
                                cache[i].valid /\ cache[i].unit = u /\ cache[i].lba = 0 /\ cache[i].data = d
                   \/ /\ ~NoDisk(info)
                      /\ \E d \in Data :
                           /\ cache' = Stored(u, 0, <<d>>) /\ cacheNext' = StoredNext(<<d>>) /\ BpbFrom(u, d)
                           /\ tainted' = IF OnDisk(u, 0, d) THEN tainted ELSE tainted \cup {<<u, 0>>}
                   \/ /\ ~NoDisk(info) /\ status' = "READ_FAULT"
                      /\ UNCHANGED <<cache, cacheNext, bpbSectors, tainted, bpbAge>>
<1>1. UNCHANGED <<pc, req, done, attempt, buf, flags, content, unitSlot, mediaChanged, batchLimit,
                  readAheadLimit>>
  BY DEF BuildBpb, Idle
<1>2. PICK o \in InfoOutcomes(u) :
        /\ infoCache' = [infoCache EXCEPT ![u] = o.got.info]
        /\ \/ /\ NoDisk(o.got.info)
              /\ status' = "OP_COMPLETE" /\ late' = o.late
              /\ bpbAge' = [bpbAge EXCEPT ![u] = IF @ = "current" THEN @ ELSE "kept"]
              /\ UNCHANGED <<cache, cacheNext, bpbSectors, tainted>>
           \/ /\ ~NoDisk(o.got.info)
              /\ Copies(u, 0) # {}
              /\ BpbFrom(u, cache[FirstCopy(u, 0)].data) /\ late' = o.late
              /\ UNCHANGED <<cache, cacheNext, tainted>>
           \/ ~NoDisk(o.got.info) /\ ReadBoot(u, o.late)
  BY DEF BuildBpb
<1>3. /\ o.got.info \in Flags \cup {Unknown} /\ o.late \in Answers
      /\ infoCache[u] # Unknown => o.got.info = infoCache[u]
  BY InfoTyped DEF Typed
<1>4. CASE NoDisk(o.got.info)
  BY <1>1, <1>2, <1>3, <1>4
<1>5. CASE /\ ~NoDisk(o.got.info) /\ Copies(u, 0) # {}
           /\ BpbFrom(u, cache[FirstCopy(u, 0)].data) /\ late' = o.late
           /\ UNCHANGED <<cache, cacheNext, tainted>>
  <2>1. FirstCopy(u, 0) \in Copies(u, 0) /\ DOMAIN cache = 0..(CacheSize - 1)
    BY <1>5, FirstCopyIsCopy DEF Typed, TypeOK
  <2>2. PICK i \in 0..(CacheSize - 1) : i = FirstCopy(u, 0) /\ cache[i].valid /\ cache[i].unit = u /\ cache[i].lba = 0
    BY <2>1 DEF Copies
  <2>3. cache[i].data \in Data
    BY DEF Typed, TypeOK, Entries
  <2> QED
    BY <1>1, <1>2, <1>3, <1>5, <2>2, <2>3
<1>6. CASE ~NoDisk(o.got.info) /\ ReadBoot(u, o.late)
  BY <1>1, <1>2, <1>3, <1>6, ReadBootIs
<1> QED
  BY <1>2, <1>4, <1>5, <1>6

(* Build_bpb_cmd keeps the types. *)
LEMMA BuildBpbTyped == ASSUME Typed, NEW u \in Units, BuildBpb(u) PROVE Typed'
<1>1. UNCHANGED <<pc, req, done, attempt, buf, flags, content, unitSlot, mediaChanged, batchLimit,
                  readAheadLimit>> /\ late' \in Answers
  BY BuildBpbIs
<1>2. infoCache' \in [Units -> Flags \cup {Unknown}]
  BY BuildBpbIs DEF Typed, TypeOK
<1>3. \A d \in Data : BpbFrom(u, d) => /\ bpbSectors' \in [Units -> Nat] /\ bpbAge' \in [Units -> Ages]
                                      /\ status' = "OP_COMPLETE"
  BY DiskAssumption DEF BpbFrom, Typed, TypeOK, Ages
<1>4. /\ bpbSectors' \in [Units -> Nat] /\ bpbAge' \in [Units -> Ages]
      /\ status' \in {"OP_COMPLETE", "READ_FAULT"}
  <2>1. bpbSectors \in [Units -> Nat] /\ bpbAge \in [Units -> Ages]
    BY DEF Typed, TypeOK
  <2>2. [bpbAge EXCEPT ![u] = IF @ = "current" THEN @ ELSE "kept"] \in [Units -> Ages]
    BY <2>1 DEF Ages
  <2> QED
    BY <1>3, <2>1, <2>2, BuildBpbIs
<1>5. cache' \in [0..(CacheSize - 1) -> Entries] /\ cacheNext' \in 0..(CacheSize - 1)
  <2>1. ASSUME NEW d \in Data PROVE <<d>> \in Seq(Data)
    OBVIOUS
  <2>2. ASSUME NEW d \in Data
        PROVE  Stored(u, 0, <<d>>) \in [0..(CacheSize - 1) -> Entries] /\ StoredNext(<<d>>) \in 0..(CacheSize - 1)
    BY <2>1, StoredEntries DEF Typed
  <2>3. CASE UNCHANGED <<cache, cacheNext>>
    BY <2>3 DEF Typed, TypeOK
  <2> QED
    BY <2>2, <2>3, BuildBpbIs
<1>6. tainted' \subseteq (Units \X Nat)
  <2>1. tainted \subseteq (Units \X Nat) /\ {<<u, 0>>} \subseteq (Units \X Nat)
    BY DEF Typed, TypeOK
  <2> QED
    BY <2>1, BuildBpbIs
<1>7. cacheNext' \in DOMAIN cache'
  BY <1>5
<1> QED
  BY <1>1, <1>2, <1>4, <1>5, <1>6, <1>7 DEF Typed, TypeOK, Progress

(* The only copy is the one cache_find finds. *)
LEMMA FirstOfOne ==
    ASSUME TypeOK, NEW u \in Units, NEW l \in Nat, NEW i \in Copies(u, l), ~(Cardinality(Copies(u, l)) > 1)
    PROVE  i = FirstCopy(u, l)
<1> DEFINE S == Copies(u, l)
<1>1. CacheSize \in Nat \ {0} /\ S \subseteq 0..(CacheSize - 1)
  BY DiskAssumption DEF TypeOK, Copies
<1>2. FirstCopy(u, l) \in S
  BY FirstCopyIsCopy
<1>3. i \in S /\ ~(Cardinality(S) > 1)
  OBVIOUS
<1> HIDE DEF S
<1>4. IsFiniteSet(S)
  <2>1. IsFiniteSet(0..(CacheSize - 1))
    BY <1>1, FS_Interval
  <2>2. S \in SUBSET (0..(CacheSize - 1))
    BY <1>1
  <2> QED
    BY <2>1, <2>2, FS_Subset
<1>5. Cardinality(S) \in Nat /\ Cardinality(S) # 0
  BY <1>3, <1>4, FS_CardinalityType, FS_EmptySet
<1>6. Cardinality(S) = 1
  BY <1>3, <1>5
<1>7. PICK x : S = {x}
  BY <1>4, <1>6, FS_Singleton
<1> QED
  BY <1>2, <1>3, <1>7

(* A sector from the cache keeps the types. *)
LEMMA ReadCachedTyped == ASSUME Typed, ReadCached PROVE Typed'
<1>1. /\ sector \in Nat /\ req.unit \in Units /\ batch \in Nat \ {0}
      /\ done \in Nat /\ done + batch <= req.count
  BY BatchNumbers DEF Typed, ReadCached, Reading
<1>2. cache[FirstCopy(req.unit, sector)].data \in Data
  <2>1. FirstCopy(req.unit, sector) \in 0..(CacheSize - 1)
    <3>1. Copies(req.unit, sector) # {} /\ TypeOK /\ DOMAIN cache = 0..(CacheSize - 1)
      BY DEF ReadCached, Typed, TypeOK
    <3>2. FirstCopy(req.unit, sector) \in Copies(req.unit, sector)
      BY <1>1, <3>1, FirstCopyIsCopy
    <3> QED
      BY <3>1, <3>2 DEF Copies
  <2>2. cache[FirstCopy(req.unit, sector)] \in Entries
    BY <2>1 DEF Typed, TypeOK
  <2> QED
    BY <2>2 DEF Entries
<1>3. buf' \in Seq(Data) /\ Len(buf') = Len(buf) + 1
  BY <1>2 DEF ReadCached, Typed, TypeOK
<1>4. pc = "read" /\ Len(buf) = done /\ pc' = pc /\ req' = req /\ done' = done + 1 /\ attempt' = 0
  BY DEF ReadCached, Reading, Typed, Progress
<1>5. req.count \in Nat
  BY DEF Typed, TypeOK
<1>6. done' \in 0..req'.count /\ attempt' \in 0..IoRetries
  BY <1>1, <1>4, <1>5, DiskAssumption
<1>7. TypeOK'
  BY <1>3, <1>4, <1>6 DEF ReadCached, device, driver, history, Typed, TypeOK
<1> QED
  BY <1>3, <1>4, <1>7 DEF Typed, Progress

(* A read from the device keeps the types. *)
LEMMA ReadFetchTyped == ASSUME Typed, ReadFetch PROVE Typed'
<1>1. sector \in Nat /\ slot \in Slots /\ fetch \in Nat
  BY BatchNumbers DEF Typed, ReadFetch, Missing, Reading
<1>2. Sectors(slot, sector, fetch) \in Seq(Data) /\ Len(Sectors(slot, sector, fetch)) = fetch
  BY <1>1, SectorsAreData DEF ReadFetch, Typed, TypeOK
<1> QED
  BY <1>2, FetchedTyped DEF ReadFetch, Missing, Typed, TypeOK

(* An answer that is still to come is well typed. *)
LEMMA ReadAnswerTyped == ASSUME Typed, Missing PROVE ReadAnswer \in Answers
<1>1. sector \in Nat /\ slot \in Slots /\ fetch \in Nat /\ content \in Contents
  BY BatchNumbers DEF Typed, TypeOK, Missing, Reading
<1>2. ASSUME Readable(slot, sector, fetch) PROVE Sectors(slot, sector, fetch) \in Seq(Data)
  BY <1>1, <1>2, SectorsAreData
<1> QED
  BY <1>2, AnswersAre DEF ReadAnswer

(* So is what is to come when an exchange had no answer. *)
LEMMA UnansweredTyped == ASSUME Typed, Missing, ReadUnanswered PROVE late' \in Answers
  BY ReadAnswerTyped DEF ReadUnanswered, Unanswered, Typed, TypeOK

(* A read that takes a late answer keeps the types. *)
LEMMA ReadLateTyped == ASSUME Typed, ReadLate PROVE Typed'
<1>1. sector \in Nat /\ req.unit \in Units /\ fetch \in Nat
  BY BatchNumbers DEF Typed, ReadLate, Missing, Reading
<1>2. late.data \in Seq(Data)
  BY DEF Typed, TypeOK, Answers
<1>3. late' \in Answers
  BY AnswersAre, ReadAnswerTyped DEF ReadLate
<1>4. tainted' \subseteq (Units \X Nat)
  BY <1>1 DEF ReadLate, Typed, TypeOK
<1> QED
  BY <1>2, <1>3, <1>4, FetchedTyped DEF ReadLate, Missing

(* A downshift leaves batch and read-ahead at one sector at least. *)
LEMMA ReadDamagedTyped == ASSUME Typed, ReadDamaged PROVE Typed'
<1>1. fetch \in Nat \ {0}
  BY BatchNumbers DEF Typed, ReadDamaged, Missing, Reading
<1>2. half \in Nat \ {0}
  BY <1>1 DEF half, Larger
<1>3. batchLimit \in 1..BatchSectors /\ readAheadLimit \in 1..ReadAhead /\ BatchSectors \in Nat /\ ReadAhead \in Nat
  BY DiskAssumption DEF Typed, TypeOK
<1>4. batchLimit' \in 1..BatchSectors /\ readAheadLimit' \in 1..ReadAhead
  BY <1>2, <1>3 DEF ReadDamaged, Downshift, Smaller
<1>5. attempt' \in 0..IoRetries
  BY DiskAssumption DEF ReadDamaged
<1>6. TypeOK'
  BY <1>4, <1>5, UnansweredTyped DEF ReadDamaged, Typed, TypeOK, history
<1> QED
  BY <1>6 DEF ReadDamaged, Typed, Progress

(* A retry is within IoRetries. *)
LEMMA ReadRetryTyped == ASSUME Typed, ReadRetry PROVE Typed'
<1>1. late' \in Answers
  BY UnansweredTyped DEF ReadRetry
<1>2. attempt' \in 0..IoRetries
  BY DiskAssumption DEF ReadRetry, Typed, TypeOK
<1>3. TypeOK'
  BY <1>1, <1>2 DEF ReadRetry, Typed, TypeOK, driver, history
<1> QED
  BY <1>3 DEF ReadRetry, Typed, Progress

(* A read that gives up keeps the types. *)
LEMMA ReadFailTyped == ASSUME Typed, ReadFail PROVE Typed'
<1>1. late' \in Answers
  BY UnansweredTyped DEF ReadFail
<1> QED
  BY <1>1, FinishTyped DEF ReadFail, history, Typed, TypeOK

(* So do the two other ends of a request. *)
LEMMA EndTyped == ASSUME Typed, Complete \/ PastEnd PROVE Typed'
<1>1. UNCHANGED <<driver, device, history>>
  BY DEF Complete, PastEnd
<1>2. /\ content' \in Contents /\ flags' = flags /\ bpbAge' \in [Units -> Ages]
      /\ late' \in Answers /\ tainted' \subseteq (Units \X Nat)
  BY <1>1 DEF device, history, Typed, TypeOK
<1> QED
  BY <1>1, <1>2, ReturnTyped, FinishTyped DEF Complete, PastEnd

(* What an exchange writes is the part of the caller's buffer that is due. *)
LEMMA OutputTyped ==
    ASSUME Typed, Writing
    PROVE  /\ output \in Seq(Data) /\ Len(output) = batch
           /\ \A k \in 1..batch : output[k] = buf[done + k]
<1>1. batch \in Nat \ {0} /\ done \in Nat /\ done + batch <= req.count /\ Len(buf) = req.count
  BY BatchNumbers DEF Typed, Writing, Progress
<1>2. buf \in Seq(Data)
  BY DEF Typed, TypeOK
<1>3. output \in Seq(Data) /\ Len(output) = batch
  BY <1>1, <1>2 DEF output
<1>4. \A k \in 1..batch : output[k] = buf[done + k]
  BY <1>1, <1>2 DEF output
<1> QED
  BY <1>3, <1>4

(* The pairs a step may add to those whose copies need not be current. *)
LEMMA AddedTyped ==
    ASSUME Typed, NEW u \in Units, NEW s \in Slots, NEW l \in Nat, NEW n \in Nat
    PROVE  /\ SectorsOf(s) \subseteq Units \X Nat /\ Aliases(u, s, l, n) \subseteq Units \X Nat
           /\ Cached(u, l, n) \subseteq Units \X Nat /\ Duplicates(u, l, n) \subseteq Units \X Nat
           /\ {u} \X (l..(l + n - 1)) \subseteq Units \X Nat
<1>1. {u} \X (l..(l + n - 1)) \subseteq Units \X Nat
  OBVIOUS
<1>2. SectorsOf(s) \subseteq Units \X Nat
  BY DiskAssumption DEF SectorsOf
<1> QED
  BY <1>1, <1>2 DEF Aliases, Cached, Duplicates

(* A batch written keeps the types. *)
LEMMA WriteBatchTyped == ASSUME Typed, WriteBatch PROVE Typed'
<1>1. sector \in Nat /\ req.unit \in Units /\ slot \in Slots /\ batch \in Nat
  BY BatchNumbers DEF Typed, WriteBatch, Writing
<1>2. content' \in Contents
  <2>1. output \in Seq(Data) /\ Len(output) = batch
    BY OutputTyped DEF WriteBatch
  <2>2. PICK s \in Slots, y \in Nat, n \in Nat, data \in Seq(Data) :
          s = slot /\ y = sector /\ n = batch /\ data = output
    BY <1>1, <2>1
  <2>3. content \in Contents /\ n <= Len(data) /\ content' = Written(s, y, data, n)
    BY <2>1, <2>2 DEF WriteBatch, Typed, TypeOK
  <2> QED
    BY <2>3, WrittenContents
<1>3. tainted' \subseteq (Units \X Nat)
  <2>1. PICK u \in Units, s \in Slots, y \in Nat, n \in Nat : u = req.unit /\ s = slot /\ y = sector /\ n = batch
    BY <1>1
  <2>2. tainted' = tainted \cup Aliases(u, s, y, n) \cup Duplicates(u, y, n)
    BY <2>1 DEF WriteBatch
  <2>3. Aliases(u, s, y, n) \subseteq Units \X Nat /\ Duplicates(u, y, n) \subseteq Units \X Nat
    BY AddedTyped
  <2>4. tainted \subseteq Units \X Nat
    BY DEF Typed, TypeOK
  <2> QED
    BY <2>2, <2>3, <2>4
<1> QED
  BY <1>2, <1>3, AcknowledgedTyped, OutdateTyped DEF WriteBatch, Typed, TypeOK

(* So does one taken for written by a late answer. *)
LEMMA WriteLateTyped == ASSUME Typed, WriteLate PROVE Typed'
<1>1. sector \in Nat /\ req.unit \in Units /\ slot \in Slots /\ batch \in Nat
  BY BatchNumbers DEF Typed, WriteLate, Writing
<1>2. Writing /\ Acknowledged /\ Outdate
  BY DEF WriteLate
<1>3. PICK k \in 0..batch :
        /\ content' = Written(slot, sector, output, k)
        /\ tainted' = tainted \cup Aliases(req.unit, slot, sector, k)
                              \cup ({req.unit} \X (sector..(sector + batch - 1)))
        /\ late' = NoAnswer \/ late' = DataAnswer("write", output)
  BY DEF WriteLate
<1>4. k \in Nat /\ k <= batch
  BY <1>1
<1>5. output \in Seq(Data) /\ Len(output) = batch
  BY <1>2, OutputTyped
<1>6. content' \in Contents
  <2>1. PICK s \in Slots, y \in Nat, data \in Seq(Data) : s = slot /\ y = sector /\ data = output
    BY <1>1, <1>5
  <2>2. content \in Contents /\ k <= Len(data) /\ content' = Written(s, y, data, k)
    BY <1>3, <1>4, <1>5, <2>1 DEF Typed, TypeOK
  <2> QED
    BY <1>4, <2>2, WrittenContents
<1>7. tainted' \subseteq (Units \X Nat)
  <2>1. PICK u \in Units, s \in Slots, y \in Nat, n \in Nat :
          u = req.unit /\ s = slot /\ y = sector /\ n = batch
    BY <1>1
  <2>2. tainted' = tainted \cup Aliases(u, s, y, k) \cup ({u} \X (y..(y + n - 1)))
    BY <1>3, <2>1
  <2>3. Aliases(u, s, y, k) \subseteq Units \X Nat
    BY <1>4, AddedTyped
  <2>4. {u} \X (y..(y + n - 1)) \subseteq Units \X Nat
    BY AddedTyped
  <2>5. tainted \subseteq Units \X Nat
    BY DEF Typed, TypeOK
  <2> QED
    BY <2>2, <2>3, <2>4, <2>5
<1>8. late' \in Answers
  BY <1>3, <1>5, AnswersAre
<1>9. bpbAge' \in [Units -> Ages] /\ flags' = flags
  BY <1>2, OutdateTyped DEF Acknowledged, Typed
<1> QED
  BY <1>2, <1>6, <1>7, <1>8, <1>9, AcknowledgedTyped

(* So does one that failed, however much of it is on the disk. *)
LEMMA WriteFailTyped == ASSUME Typed, WriteFail PROVE Typed'
<1>1. sector \in Nat /\ req.unit \in Units /\ slot \in Slots /\ batch \in Nat
  BY BatchNumbers DEF Typed, WriteFail, Writing
<1>2. Writing /\ Finish /\ Outdate /\ UNCHANGED <<flags, driver>>
  BY DEF WriteFail
<1>3. PICK k \in 0..batch :
        /\ content' = Written(slot, sector, output, k)
        /\ tainted' = tainted \cup Aliases(req.unit, slot, sector, k) \cup Cached(req.unit, sector, k)
        /\ late' = late \/ late' = DataAnswer("write", output)
  BY DEF WriteFail
<1>4. k \in Nat /\ k <= batch
  BY <1>1
<1>5. output \in Seq(Data) /\ Len(output) = batch
  BY <1>2, OutputTyped
<1>6. content' \in Contents
  <2>1. PICK s \in Slots, y \in Nat, data \in Seq(Data) : s = slot /\ y = sector /\ data = output
    BY <1>1, <1>5
  <2>2. content \in Contents /\ k <= Len(data) /\ content' = Written(s, y, data, k)
    BY <1>3, <1>4, <1>5, <2>1 DEF Typed, TypeOK
  <2> QED
    BY <1>4, <2>2, WrittenContents
<1>7. tainted' \subseteq (Units \X Nat)
  <2>1. PICK u \in Units, s \in Slots, y \in Nat : u = req.unit /\ s = slot /\ y = sector
    BY <1>1
  <2>2. tainted' = tainted \cup Aliases(u, s, y, k) \cup Cached(u, y, k)
    BY <1>3, <2>1
  <2>3. Aliases(u, s, y, k) \subseteq Units \X Nat /\ Cached(u, y, k) \subseteq Units \X Nat
    BY <1>4, AddedTyped
  <2>4. tainted \subseteq Units \X Nat
    BY DEF Typed, TypeOK
  <2> QED
    BY <2>2, <2>3, <2>4
<1>8. late' \in Answers /\ bpbAge' \in [Units -> Ages]
  BY <1>2, <1>3, <1>5, AnswersAre, OutdateTyped DEF Typed, TypeOK
<1> QED
  BY <1>2, <1>6, <1>7, <1>8, FinishTyped

(* A change of the medium keeps the types. *)
LEMMA ChangeMediumTyped == ASSUME Typed, NEW s \in Slots, ChangeMedium(s) PROVE Typed'
<1>1. flags' \in [Slots -> Flags]
  BY DEF ChangeMedium, Typed, TypeOK
<1>2. content' \in Contents
  <2>1. PICK d \in Disks(s) : content' = [content EXCEPT ![s] = d]
    BY DEF ChangeMedium
  <2>2. content \in [Slots -> UNION {Disks(t) : t \in Slots}] /\ \A t \in Slots : content[t] \in Disks(t)
    BY DEF Typed, TypeOK, Contents
  <2>3. content' \in [Slots -> UNION {Disks(t) : t \in Slots}]
    BY <2>1, <2>2
  <2>4. \A t \in Slots : content'[t] \in Disks(t)
    BY <2>1, <2>2
  <2> QED
    BY <2>3, <2>4 DEF Contents
<1>3. tainted' \subseteq (Units \X Nat)
  BY DiskAssumption DEF ChangeMedium, SectorsOf, Typed, TypeOK
<1>4. TypeOK'
  BY <1>1, <1>2, <1>3, OutdateTyped DEF ChangeMedium, driver, request, Typed, TypeOK
<1> QED
  BY <1>4 DEF ChangeMedium, request, Typed, Progress

(* Typed is inductive. *)
LEMMA StepTyped == ASSUME Typed, [Next]_vars PROVE Typed'
<1>1. CASE UNCHANGED vars
  BY <1>1 DEF vars, device, driver, request, history, Typed, TypeOK, Progress
<1>2. CASE Ask
  <2>1. PICK u \in Units :
            \/ MediaCheck(u) \/ BuildBpb(u) \/ \E s \in Slots : SetUnitMap(u, s)
            \/ \E l \in 0..MaxLba, n \in 0..MaxCount : StartRead(u, l, n)
            \/ \E l \in 0..MaxLba, n \in 0..MaxCount : \E data \in [1..n -> Data] : StartWrite(u, l, data)
    BY <1>2 DEF Ask
  <2>2. \A x \in 0..MaxLba : x \in Nat
    OBVIOUS
  <2>3. \A x \in 0..MaxCount : x \in Nat
    OBVIOUS
  <2>4. CASE \E l \in 0..MaxLba, n \in 0..MaxCount : StartRead(u, l, n)
    BY <2>2, <2>3, <2>4, StartReadTyped
  <2>5. CASE \E l \in 0..MaxLba, n \in 0..MaxCount : \E data \in [1..n -> Data] : StartWrite(u, l, data)
    BY <2>2, <2>3, <2>5, StartWriteTyped
  <2> QED
    BY <2>1, <2>4, <2>5, MediaCheckTyped, BuildBpbTyped, SetUnitMapTyped
<1>3. CASE Step
  BY <1>3, EndTyped, ReadCachedTyped, ReadFetchTyped, ReadLateTyped, ReadDamagedTyped, ReadRetryTyped,
     ReadFailTyped, WriteBatchTyped, WriteLateTyped, WriteFailTyped DEF Step
<1>4. CASE \E s \in Slots : ChangeMedium(s)
  BY <1>4, ChangeMediumTyped
<1> QED
  BY <1>1, <1>2, <1>3, <1>4 DEF Next

(* TypeOK in every reachable state: unit numbers, slots, ring places, batch  *)
(* sizes, retry counts and buffers are what the driver's code takes them to be. *)
THEOREM TypeCorrect == Spec => []TypeOK
<1>1. Typed => TypeOK
  BY DEF Typed
<1> QED
  BY <1>1, InitTyped, StepTyped, PTL DEF Spec

-----------------------------------------------------------------------------
(* Writes. *)

(* Only write exchanges change a disk, and they put sector after    *)
(* sector of the caller's buffer from where the request has come to.         *)
LEMMA StepWrites ==
    ASSUME Typed, "medium" \notin Disturbances, Next, NEW s \in Slots, NEW x \in DOMAIN content[s],
           content'[s][x] # content[s][x]
    PROVE  /\ pc = "write" /\ s = slot
           /\ x \in req.lba..(req.lba + req.count - 1)
           /\ content'[s][x] = buf[x - req.lba + 1]
<1>1. PICK k \in Nat : Writing /\ k <= batch /\ content' = Written(slot, sector, output, k)
  <2>1. CASE UNCHANGED content
    BY <2>1
  <2>2. Writing => batch \in Nat
    BY BatchNumbers DEF Typed, Writing
  <2>3. CASE WriteBatch
    BY <2>2, <2>3 DEF WriteBatch
  <2>4. CASE WriteFail \/ WriteLate
    BY <2>2, <2>4 DEF WriteFail, WriteLate
  <2> QED
    BY <2>1, <2>3, <2>4 DEF Next, Ask, Step, MediaCheck, BuildBpb, SetUnitMap, StartRead, StartWrite,
       Complete, PastEnd, ReadCached, ReadFetch, ReadLate, Fetched, ReadDamaged, ReadRetry, ReadFail,
       ChangeMedium, device
<1>2. /\ sector \in Nat /\ slot \in Slots /\ batch \in Nat /\ done \in Nat /\ done + batch <= req.count
      /\ req.lba \in Nat /\ req.count \in Nat /\ sector = req.lba + done
  BY <1>1, BatchNumbers DEF Typed, TypeOK, Writing, sector
<1>3. /\ output \in Seq(Data) /\ Len(output) = batch /\ \A i \in 1..batch : output[i] = buf[done + i]
  BY <1>1, OutputTyped
<1>4. PICK t \in Slots, y \in Nat, n \in Nat, h \in Nat, f \in Nat, c \in Nat, data \in Seq(Data) :
        /\ t = slot /\ y = sector /\ n = batch /\ h = done /\ f = req.lba /\ c = req.count /\ data = output
  BY <1>2, <1>3
<1>5. /\ content \in Contents /\ k <= n /\ k <= Len(data) /\ content' = Written(t, y, data, k)
      /\ y = f + h /\ h + n <= c
  BY <1>1, <1>2, <1>3, <1>4 DEF Typed, TypeOK
<1>6. \A i \in 1..n : data[i] = buf[h + i]
  BY <1>3, <1>4
<1>7. /\ \A r \in Slots : r # t => content'[r] = content[r]
      /\ \A z \in DOMAIN content[t] :
            content'[t][z] = IF z - y \in 0..(k - 1) THEN data[z - y + 1] ELSE content[t][z]
  BY <1>5, WrittenContents
<1>8. s = t
  BY <1>7
<1>9. x - y \in 0..(k - 1) /\ content'[s][x] = data[x - y + 1]
  BY <1>7, <1>8
<1>10. x \in Nat
  <2>1. content[s] \in [0..(Size[s] - 1) -> Data] /\ Size[s] \in Nat
    BY <1>5, ContentOf
  <2>2. x \in 0..(Size[s] - 1)
    BY <2>1
  <2> QED
    BY <2>1, <2>2
<1>11. x \in f..(f + c - 1) /\ x - y + 1 \in 1..n /\ h + (x - y + 1) = x - f + 1
  <2>1. y = f + h /\ h + n <= c /\ k <= n
    BY <1>5
  <2>2. x - y \in 0..(k - 1)
    BY <1>9
  <2> QED
    BY <1>10, <2>1, <2>2
<1>12. content'[s][x] = buf[x - f + 1]
  BY <1>6, <1>9, <1>11
<1> QED
  BY <1>1, <1>4, <1>8, <1>11, <1>12 DEF Writing

(* WritesStayInRequest, where nobody else changes the disks: Output_cmd      *)
(* writes the caller's sectors where they belong and no other.               *)
THEOREM WritesStay == ASSUME "medium" \notin Disturbances PROVE Spec => WritesStayInRequest
<1>1. ASSUME Typed, [Next]_vars
      PROVE  [\A s \in Slots : \A l \in DOMAIN content[s] :
                content'[s][l] # content[s][l] =>
                    /\ pc = "write" /\ s = slot
                    /\ l \in req.lba..(req.lba + req.count - 1)
                    /\ content'[s][l] = buf[l - req.lba + 1]]_vars
  BY <1>1, StepWrites
<1> QED
  BY <1>1, InitTyped, StepTyped, PTL DEF Spec, WritesStayInRequest

-----------------------------------------------------------------------------
(* What is cached, and what was transferred. *)

Right(u, l, d) == OnDisk(u, l, d) \/ <<u, l>> \in tainted
RightNext(u, l, d) ==
    \/ l \in DOMAIN content'[unitSlot'[u]] /\ content'[unitSlot'[u]][l] = d
    \/ <<u, l>> \in tainted'
CacheRight == \A i \in 0..(CacheSize - 1) : cache[i].valid => Right(cache[i].unit, cache[i].lba, cache[i].data)
Truth == CacheRight /\ TransferIsTrue

(* CacheRight says what StaleIsExplained says. *)
LEMMA CacheRightIs == ASSUME TypeOK PROVE CacheRight <=> StaleIsExplained
  BY DEF TypeOK, CacheRight, Right, StaleIsExplained

(* What is to be shown of the cache after a step. *)
LEMMA CacheRightThen ==
    (\A i \in 0..(CacheSize - 1) : cache'[i].valid => RightNext(cache'[i].unit, cache'[i].lba, cache'[i].data))
        => CacheRight'
  BY DEF CacheRight, Right, RightNext, OnDisk

(* What is to be shown of the sectors done after a step. *)
LEMMA TransferThen ==
    (\A i \in 1..done' : RightNext(req'.unit, req'.lba + i - 1, buf'[i])) => TransferIsTrue'
  BY DEF TransferIsTrue, RightNext, OnDisk

(* TransferIsTrue, in the words of Right. *)
LEMMA TransferIs == TransferIsTrue <=> \A i \in 1..done : Right(req.unit, req.lba + i - 1, buf[i])
  BY DEF TransferIsTrue, Right

(* What is right stays right while the disks and the map do. *)
LEMMA RightStays ==
    ASSUME NEW u, NEW l, NEW d, Right(u, l, d), UNCHANGED <<content, unitSlot>>, tainted \subseteq tainted'
    PROVE  RightNext(u, l, d)
  BY DEF Right, RightNext, OnDisk

(* A cache that is left alone stays right. *)
LEMMA CacheStays ==
    ASSUME CacheRight, UNCHANGED <<cache, content, unitSlot>>, tainted \subseteq tainted'
    PROVE  CacheRight'
<1>1. \A i \in 0..(CacheSize - 1) : cache[i].valid => RightNext(cache[i].unit, cache[i].lba, cache[i].data)
  BY RightStays DEF CacheRight
<1> QED
  BY <1>1, CacheRightThen

(* Where nothing is done nothing is false. *)
LEMMA NothingTransferred == done = 0 => TransferIsTrue
  BY DEF TransferIsTrue

(* The same after a step. *)
LEMMA NothingTransferredNext == done' = 0 => TransferIsTrue'
  BY DEF TransferIsTrue

(* Steps that leave the disks, the cache and what was transferred alone, or *)
(* forget what was transferred.                                            *)
LEMMA QuietTrue ==
    ASSUME Truth, UNCHANGED <<cache, content, unitSlot>>, tainted \subseteq tainted',
           done' = 0 \/ UNCHANGED <<req, done, buf>>
    PROVE  Truth'
<1>1. CacheRight'
  BY CacheStays DEF Truth
<1>2. CASE done' = 0
  BY <1>1, <1>2, NothingTransferredNext DEF Truth
<1>3. CASE UNCHANGED <<req, done, buf>>
  <2>1. TransferIsTrue'
    BY <1>3 DEF Truth, TransferIsTrue, OnDisk
  <2> QED
    BY <1>1, <2>1 DEF Truth
<1> QED
  BY <1>2, <1>3

(* Sectors put into the ring. *)
LEMMA StoredRight ==
    ASSUME TypeOK, CacheRight, NEW u \in Units, NEW l \in Nat, NEW data \in Seq(Data),
           cache' = Stored(u, l, data), UNCHANGED <<content, unitSlot>>, tainted \subseteq tainted',
           \A k \in 0..(Len(data) - 1) : RightNext(u, l + k, data[k + 1])
    PROVE  CacheRight'
<1> SUFFICES ASSUME NEW i \in 0..(CacheSize - 1), cache'[i].valid
             PROVE  RightNext(cache'[i].unit, cache'[i].lba, cache'[i].data)
  BY CacheRightThen
<1>1. CASE cache'[i] = cache[i]
  BY <1>1, RightStays DEF CacheRight
<1>2. CASE \E k \in 0..(Len(data) - 1) :
             cache'[i] = [valid |-> TRUE, unit |-> u, lba |-> l + k, data |-> data[k + 1]]
  BY <1>2
<1> QED
  BY <1>1, <1>2, StoredEntries

(* The boot sector that Build_bpb_cmd caches is the disk's, or is marked. *)
LEMMA BuildBpbTrue == ASSUME Typed, Truth, NEW u \in Units, BuildBpb(u) PROVE Truth'
<1>1. UNCHANGED <<content, unitSlot, req, done, buf>>
  BY BuildBpbIs
<1>2. CASE UNCHANGED <<cache, tainted>>
  BY <1>1, <1>2, QuietTrue
<1>3. ASSUME NEW d \in Data, cache' = Stored(u, 0, <<d>>),
             tainted' = IF OnDisk(u, 0, d) THEN tainted ELSE tainted \cup {<<u, 0>>}
      PROVE  Truth'
  <2>1. RightNext(u, 0, d) /\ tainted \subseteq tainted'
    BY <1>1, <1>3 DEF RightNext, OnDisk
  <2>2. PICK data \in Seq(Data) : data = <<d>> /\ Len(data) = 1 /\ data[1] = d
    <3>1. <<d>> \in Seq(Data) /\ Len(<<d>>) = 1 /\ <<d>>[1] = d
      OBVIOUS
    <3> QED
      BY <3>1
  <2>3. \A k \in 0..(Len(data) - 1) : 0 + k = 0 /\ k + 1 = 1
    BY <2>2
  <2>4. CacheRight'
    <3>1. \A k \in 0..(Len(data) - 1) : RightNext(u, 0 + k, data[k + 1])
      BY <2>1, <2>2, <2>3
    <3>2. cache' = Stored(u, 0, data) /\ 0 \in Nat
      BY <1>3, <2>2
    <3> QED
      BY <1>1, <2>1, <3>1, <3>2, StoredRight DEF Truth, Typed
  <2>5. TransferIsTrue'
    BY <1>1, <2>1 DEF Truth, TransferIsTrue, OnDisk
  <2> QED
    BY <2>4, <2>5 DEF Truth
<1> QED
  BY <1>2, <1>3, BuildBpbIs

(* Nothing that is cached for a unit outlives a change of its slot. *)
LEMMA SetUnitMapTrue == ASSUME Typed, Truth, NEW u \in Units, NEW s \in Slots, SetUnitMap(u, s) PROVE Truth'
<1>1. done' = 0 /\ UNCHANGED content
  BY DEF SetUnitMap, Idle, Typed, Progress, device
<1>2. \A v \in Units : v # u => unitSlot'[v] = unitSlot[v]
  BY DEF SetUnitMap, Typed, TypeOK
<1>3. ASSUME NEW i \in 0..(CacheSize - 1), cache'[i].valid
      PROVE  RightNext(cache'[i].unit, cache'[i].lba, cache'[i].data)
  <2>1. cache[i] \in Entries /\ cache'[i] = IF cache[i].unit = u THEN Empty ELSE cache[i]
    BY DEF SetUnitMap, Invalidated, Typed, TypeOK
  <2>2. cache[i].unit \in Units /\ cache[i].unit # u /\ cache'[i] = cache[i]
    BY <1>3, <2>1 DEF Empty, Entries
  <2>3. Right(cache[i].unit, cache[i].lba, cache[i].data)
    BY <1>3, <2>2 DEF Truth, CacheRight
  <2>4. <<cache[i].unit, cache[i].lba>> \in tainted => <<cache[i].unit, cache[i].lba>> \in tainted'
    BY <2>2 DEF SetUnitMap
  <2> QED
    BY <1>1, <1>2, <2>2, <2>3, <2>4 DEF Right, RightNext, OnDisk
<1> QED
  BY <1>1, <1>3, CacheRightThen, NothingTransferredNext DEF Truth

(* A change of the medium taints all units that see it. *)
LEMMA ChangeMediumTrue == ASSUME Typed, Truth, NEW s \in Slots, ChangeMedium(s) PROVE Truth'
<1>1. UNCHANGED <<unitSlot, cache, req, done, buf>>
  BY DEF ChangeMedium, driver, request
<1>2. CASE content' = content
  BY <1>1, <1>2, QuietTrue DEF ChangeMedium
<1>3. CASE content' # content
  <2>1. tainted' = tainted \cup SectorsOf(s)
    BY <1>3 DEF ChangeMedium
  <2>2. \A t \in Slots : t # s => content'[t] = content[t]
    BY DEF ChangeMedium, Typed, TypeOK, Contents
  <2>3. DOMAIN content[s] = 0..(Size[s] - 1)
    BY ContentOf DEF Typed, TypeOK
  <2>4. ASSUME NEW u \in Units, NEW l, NEW d, Right(u, l, d) PROVE RightNext(u, l, d)
    <3>1. unitSlot[u] \in Slots
      BY DEF Typed, TypeOK
    <3>2. CASE unitSlot[u] = s /\ OnDisk(u, l, d)
      BY <2>1, <2>3, <3>2 DEF SectorsOf, OnDisk, Right, RightNext
    <3> QED
      BY <1>1, <2>1, <2>2, <2>4, <3>1, <3>2 DEF Right, RightNext, OnDisk
  <2>5. CacheRight'
    <3>1. \A i \in 0..(CacheSize - 1) : cache[i].unit \in Units
      BY DEF Typed, TypeOK, Entries
    <3>2. \A i \in 0..(CacheSize - 1) : cache[i].valid => RightNext(cache[i].unit, cache[i].lba, cache[i].data)
      BY <2>4, <3>1 DEF Truth, CacheRight
    <3> QED
      BY <1>1, <3>2, CacheRightThen
  <2>6. req.unit \in Units
    BY DEF Typed, TypeOK
  <2>7. TransferIsTrue'
    <3>1. \A i \in 1..done : Right(req.unit, req.lba + i - 1, buf[i])
      BY TransferIs DEF Truth
    <3>2. \A i \in 1..done : RightNext(req'.unit, req'.lba + i - 1, buf'[i])
      BY <1>1, <2>4, <2>6, <3>1
    <3> QED
      BY <1>1, <3>2, TransferThen
  <2> QED
    BY <2>5, <2>7 DEF Truth
<1> QED
  BY <1>2, <1>3

(* A sequence joined from two. *)
LEMMA Appended ==
    ASSUME NEW a \in Seq(Data), NEW b \in Seq(Data), NEW i \in 1..(Len(a) + Len(b))
    PROVE  (a \o b)[i] = IF i <= Len(a) THEN a[i] ELSE b[i - Len(a)]
  OBVIOUS

(* A fetch: what it brought is right, so is what it left. *)
LEMMA FetchedTrue ==
    ASSUME Typed, Truth, Reading, NEW data \in Seq(Data), Len(data) = fetch, Fetched(data),
           tainted \subseteq tainted',
           \A k \in 0..(fetch - 1) : RightNext(req.unit, sector + k, data[k + 1])
    PROVE  Truth'
<1>1. /\ sector \in Nat /\ req.unit \in Units /\ batch \in Nat \ {0} /\ fetch \in Nat \ {0}
      /\ batch <= fetch /\ done \in Nat
  BY BatchNumbers DEF Typed, Reading
<1>2. UNCHANGED <<content, unitSlot, req>> /\ cache' = Stored(req.unit, sector, data)
  BY DEF Fetched
<1>3. CacheRight'
  BY <1>1, <1>2, StoredRight DEF Typed, Truth
<1>4. pc = "read" /\ Len(buf) = done /\ buf \in Seq(Data) /\ req.lba \in Nat /\ sector = req.lba + done
  BY DEF Reading, Typed, Progress, TypeOK, sector
<1>5. PICK s \in Seq(Data) : s = SubSeq(data, 1, batch) /\ Len(s) = batch /\ \A j \in 1..batch : s[j] = data[j]
  <2>1. \A b \in 1..Len(data) : /\ SubSeq(data, 1, b) \in Seq(Data) /\ Len(SubSeq(data, 1, b)) = b
                                /\ \A j \in 1..b : SubSeq(data, 1, b)[j] = data[j]
    OBVIOUS
  <2>2. batch \in 1..Len(data)
    BY <1>1
  <2> QED
    BY <2>1, <2>2
<1>6. buf' = buf \o s /\ done' = done + batch
  BY <1>5 DEF Fetched
<1>7. ASSUME NEW i \in 1..done' PROVE RightNext(req'.unit, req'.lba + i - 1, buf'[i])
  <2>1. CASE i <= done
    <3>1. buf'[i] = buf[i] /\ i \in 1..done
      BY <1>1, <1>4, <1>5, <1>6, <2>1
    <3>2. Right(req.unit, req.lba + i - 1, buf[i])
      BY <3>1, TransferIs DEF Truth
    <3>3. RightNext(req.unit, req.lba + i - 1, buf[i])
      BY <1>2, <3>2, RightStays
    <3> QED
      BY <1>2, <3>1, <3>3
  <2>2. CASE i > done
    <3>1. i - done \in 1..batch /\ i - done - 1 \in 0..(fetch - 1)
      <4>1. \A j, d, b, f \in Int : (j \in 1..(d + b) /\ j > d /\ b <= f) => j - d \in 1..b /\ j - d - 1 \in 0..(f - 1)
        OBVIOUS
      <4>2. i \in 1..(done + batch) /\ i \in Int
        BY <1>1, <1>6
      <4> QED
        BY <1>1, <2>2, <4>1, <4>2
    <3>2. buf'[i] = s[i - done]
      <4>1. i \in 1..(Len(buf) + Len(s)) /\ ~(i <= Len(buf))
        BY <1>1, <1>4, <1>5, <1>6, <2>2
      <4> QED
        BY <1>4, <1>5, <1>6, <4>1, Appended
    <3>3. \A m, l, d, x \in Int : x = l + d => l + m - 1 = x + (m - d - 1) /\ (m - d - 1) + 1 = m - d
      OBVIOUS
    <3>4. req.lba + i - 1 = sector + (i - done - 1) /\ (i - done - 1) + 1 = i - done
      BY <1>1, <1>4, <3>3
    <3>5. buf'[i] = data[(i - done - 1) + 1]
      BY <1>5, <3>1, <3>2, <3>4
    <3>6. RightNext(req.unit, sector + (i - done - 1), data[(i - done - 1) + 1])
      BY <3>1
    <3> QED
      BY <1>2, <3>4, <3>5, <3>6
  <2>3. i \in Int /\ done \in Int
    BY <1>1, <1>6
  <2> QED
    BY <2>1, <2>2, <2>3
<1>8. TransferIsTrue'
  BY <1>7, TransferThen
<1> QED
  BY <1>3, <1>8 DEF Truth

(* A read from the device is right. *)
LEMMA ReadFetchTrue == ASSUME Typed, Truth, ReadFetch PROVE Truth'
<1>1. sector \in Nat /\ slot \in Slots /\ fetch \in Nat /\ req.unit \in Units
  BY BatchNumbers DEF Typed, ReadFetch, Missing, Reading
<1>2. PICK data \in Seq(Data) : data = Sectors(slot, sector, fetch)
  BY <1>1, SectorsAreData DEF ReadFetch, Typed, TypeOK
<1>3. /\ Len(data) = fetch
      /\ \A k \in 1..fetch : sector + k - 1 \in DOMAIN content[slot] /\ data[k] = content[slot][sector + k - 1]
  BY <1>1, <1>2, SectorsAreData DEF ReadFetch, Typed, TypeOK
<1>4. UNCHANGED <<content, unitSlot, tainted, req>>
  BY DEF ReadFetch, Fetched
<1>5. ASSUME NEW k \in 0..(fetch - 1) PROVE RightNext(req.unit, sector + k, data[k + 1])
  <2>1. k + 1 \in 1..fetch /\ sector + (k + 1) - 1 = sector + k
    BY <1>1
  <2>2. sector + k \in DOMAIN content[slot] /\ data[k + 1] = content[slot][sector + k]
    BY <1>3, <2>1
  <2> QED
    BY <1>4, <2>2 DEF RightNext, slot
<1> QED
  BY <1>2, <1>3, <1>4, <1>5, FetchedTrue DEF ReadFetch, Missing

(* One that takes a late answer need not be, and is marked. *)
LEMMA ReadLateTrue == ASSUME Typed, Truth, ReadLate PROVE Truth'
<1>1. sector \in Nat /\ fetch \in Nat
  BY BatchNumbers DEF Typed, ReadLate, Missing, Reading
<1>2. PICK data \in Seq(Data) : data = late.data
  BY DEF Typed, TypeOK, Answers
<1>3. tainted' = tainted \cup ({req.unit} \X (sector..(sector + fetch - 1)))
  BY DEF ReadLate
<1>4. \A k \in 0..(fetch - 1) : sector + k \in sector..(sector + fetch - 1)
  BY <1>1
<1>5. \A k \in 0..(fetch - 1) : RightNext(req.unit, sector + k, data[k + 1])
  BY <1>3, <1>4 DEF RightNext
<1> QED
  BY <1>2, <1>3, <1>5, FetchedTrue DEF ReadLate, Missing

(* A sector from the cache is as right as the cache. *)
LEMMA ReadCachedTrue == ASSUME Typed, Truth, ReadCached PROVE Truth'
<1>1. sector \in Nat /\ req.unit \in Units /\ done \in Nat /\ sector = req.lba + done /\ req.lba \in Nat
  BY BatchNumbers DEF Typed, TypeOK, ReadCached, Reading, sector
<1>2. UNCHANGED <<content, unitSlot, cache, tainted, req>> /\ done' = done + 1
  BY DEF ReadCached, device, driver, history
<1>3. PICK i \in 0..(CacheSize - 1) :
        /\ cache[i].valid /\ cache[i].unit = req.unit /\ cache[i].lba = sector
        /\ buf' = Append(buf, cache[i].data)
  <2>1. FirstCopy(req.unit, sector) \in Copies(req.unit, sector)
    BY <1>1, FirstCopyIsCopy DEF ReadCached, Typed
  <2> QED
    BY <2>1 DEF ReadCached, Copies, Typed, TypeOK
<1>4. buf \in Seq(Data) /\ Len(buf) = done /\ cache[i].data \in Data
  BY DEF ReadCached, Reading, Typed, TypeOK, Progress, Entries
<1>5. Right(req.unit, sector, cache[i].data)
  BY <1>3 DEF Truth, CacheRight
<1>6. ASSUME NEW j \in 1..done' PROVE RightNext(req'.unit, req'.lba + j - 1, buf'[j])
  <2>1. CASE j = done + 1
    <3>1. req.lba + j - 1 = sector /\ buf'[j] = cache[i].data
      BY <1>1, <1>3, <1>4, <2>1
    <3> QED
      BY <1>2, <1>5, <3>1, RightStays
  <2>2. CASE j # done + 1
    <3>1. j \in 1..done /\ buf'[j] = buf[j]
      BY <1>1, <1>2, <1>3, <1>4, <2>2
    <3>2. Right(req.unit, req.lba + j - 1, buf[j])
      BY <3>1, TransferIs DEF Truth
    <3>3. RightNext(req.unit, req.lba + j - 1, buf[j])
      BY <1>2, <3>2, RightStays
    <3> QED
      BY <1>2, <3>1, <3>3
  <2> QED
    BY <2>1, <2>2
<1> QED
  BY <1>2, <1>6, CacheStays, TransferThen DEF Truth

(* What a write does to sectors it writes, and to all others. *)
LEMMA RightPastWrite ==
    ASSUME TypeOK, NEW s \in Slots, NEW y \in Nat, NEW data \in Seq(Data), NEW k \in Nat, k <= Len(data),
           content' = Written(s, y, data, k), UNCHANGED unitSlot, tainted \subseteq tainted',
           NEW u \in Units, NEW l, NEW d, Right(u, l, d),
           unitSlot[u] # s \/ l \notin y..(y + k - 1)
    PROVE  RightNext(u, l, d)
<1>1. unitSlot[u] \in Slots /\ content \in Contents
  BY DEF TypeOK
<1>2. /\ \A t \in Slots : t # s => content'[t] = content[t]
      /\ DOMAIN content'[s] = DOMAIN content[s]
      /\ \A x \in DOMAIN content[s] :
            content'[s][x] = IF x - y \in 0..(k - 1) THEN data[x - y + 1] ELSE content[s][x]
  BY <1>1, WrittenContents
<1>3. CASE <<u, l>> \in tainted
  BY <1>3 DEF RightNext
<1>4. CASE OnDisk(u, l, d) /\ unitSlot[u] # s
  BY <1>1, <1>2, <1>4 DEF RightNext, OnDisk
<1>5. CASE OnDisk(u, l, d) /\ unitSlot[u] = s
  <2>1. l \in DOMAIN content[s] /\ content[s][l] = d /\ l \notin y..(y + k - 1)
    BY <1>5 DEF OnDisk
  <2>2. l \in Nat
    BY <1>1, <2>1, ContentOf
  <2>3. l - y \notin 0..(k - 1)
    BY <2>1, <2>2
  <2>4. content'[s][l] = d
    BY <1>2, <2>1, <2>3
  <2> QED
    BY <1>2, <1>5, <2>1, <2>4 DEF RightNext
<1> QED
  BY <1>3, <1>4, <1>5 DEF Right

(* A sector that is written is right. *)
LEMMA RightInWrite ==
    ASSUME TypeOK, NEW s \in Slots, NEW y \in Nat, NEW data \in Seq(Data), NEW k \in Nat, k <= Len(data),
           content' = Written(s, y, data, k), UNCHANGED unitSlot, y + k <= Size[s],
           NEW u \in Units, unitSlot[u] = s, NEW j \in 1..k
    PROVE  RightNext(u, y + j - 1, data[j])
<1>1. content \in Contents
  BY DEF TypeOK
<1>2. /\ DOMAIN content'[s] = DOMAIN content[s]
      /\ \A x \in DOMAIN content[s] :
            content'[s][x] = IF x - y \in 0..(k - 1) THEN data[x - y + 1] ELSE content[s][x]
  BY <1>1, WrittenContents
<1>3. DOMAIN content[s] = 0..(Size[s] - 1) /\ Size[s] \in Nat
  BY <1>1, ContentOf
<1>4. /\ y + j - 1 \in 0..(Size[s] - 1) /\ (y + j - 1) - y \in 0..(k - 1)
      /\ (y + j - 1) - y + 1 = j
  BY <1>3
<1>5. content'[s][y + j - 1] = data[j]
  BY <1>2, <1>3, <1>4
<1> QED
  BY <1>2, <1>3, <1>4, <1>5 DEF RightNext

(* Another unit's copy of a sector that is being written. *)
LEMMA AliasTainted ==
    ASSUME TypeOK, NEW s \in Slots, NEW y \in Nat, NEW k \in Nat, k > 0 => y + k <= Size[s],
           NEW u \in Units, NEW i \in 0..(CacheSize - 1), cache[i].valid, cache[i].unit # u,
           unitSlot[cache[i].unit] = s, cache[i].lba \in y..(y + k - 1)
    PROVE  <<cache[i].unit, cache[i].lba>> \in Aliases(u, s, y, k)
<1>1. Size[s] \in Nat /\ cache[i].unit \in Units
  BY ContentOf DEF TypeOK, Entries
<1>2. PICK x \in Nat : x = cache[i].lba
  BY DEF TypeOK, Entries, Lbas
<1>3. x \in y..(y + k - 1)
  BY <1>2
<1>4. x \in 0..(Size[s] - 1)
  BY <1>1, <1>3
<1>5. i \in Copies(cache[i].unit, x)
  BY <1>2 DEF Copies, TypeOK
<1> QED
  BY <1>1, <1>2, <1>3, <1>4, <1>5 DEF Aliases, SectorsOf

\* Place i of the ring holds one of the n sectors from y on.
Hit(i, u, y, n) == cache[i].unit = u /\ cache[i].lba \in y..(y + n - 1)

(* Copies of other sectors are left alone. *)
LEMMA OthersKept ==
    ASSUME TypeOK, NEW u \in Units, NEW y \in Nat, NEW data \in Seq(Data), NEW n \in Nat, Len(data) = n,
           cache' = Updated(u, y, data), NEW i \in 0..(CacheSize - 1), ~Hit(i, u, y, n)
    PROVE  cache'[i] = cache[i]
  BY UpdatedEntries DEF Hit

(* The only copy of a sector that was written is new. *)
LEMMA OwnUpdated ==
    ASSUME TypeOK, NEW u \in Units, NEW y \in Nat, NEW data \in Seq(Data),
           NEW i \in 0..(CacheSize - 1), NEW j \in 1..Len(data),
           cache[i].valid, cache[i].unit = u, cache[i].lba = y + j - 1,
           ~(Cardinality(Copies(u, cache[i].lba)) > 1)
    PROVE  Updated(u, y, data)[i].data = data[j]
<1>1. DOMAIN cache = 0..(CacheSize - 1) /\ cache[i] \in Entries
  BY DEF TypeOK
<1>2. PICK x \in Nat : x = cache[i].lba /\ x = y + j - 1
  BY <1>1 DEF Entries, Lbas
<1>3. i \in Copies(u, x)
  BY <1>1, <1>2 DEF Copies
<1>4. i = FirstCopy(u, x)
  BY <1>2, <1>3, FirstOfOne
<1>5. PICK k \in 0..(Len(data) - 1) : k = x - y
  BY <1>2
<1>6. y + k = x /\ k + 1 = j
  BY <1>2, <1>5
<1>7. Updated(u, y, data)[i] = [cache[i] EXCEPT !.data = data[k + 1]]
  BY <1>1, <1>2, <1>3, <1>4, <1>5, <1>6 DEF Updated
<1>8. Updated(u, y, data)[i].data = data[k + 1]
  BY <1>1, <1>7 DEF Entries
<1> QED
  BY <1>6, <1>8

(* A batch written leaves wrong only other units' copies and second copies. *)
LEMMA WriteBatchTrue == ASSUME Typed, Truth, WriteBatch PROVE Truth'
<1>1. /\ sector \in Nat /\ slot \in Slots /\ batch \in Nat /\ req.unit \in Units /\ done \in Nat
      /\ sector = req.lba + done /\ req.lba \in Nat /\ TypeOK
  BY BatchNumbers DEF Typed, TypeOK, WriteBatch, Writing, sector
<1>2. /\ Writing /\ sector + batch <= Size[slot] /\ content' = Written(slot, sector, output, batch)
      /\ UNCHANGED <<unitSlot, req, buf>> /\ done' = done + batch
      /\ cache' = Updated(req.unit, sector, output)
      /\ tainted' = tainted \cup Aliases(req.unit, slot, sector, batch) \cup Duplicates(req.unit, sector, batch)
  BY DEF WriteBatch, Acknowledged, Writable, Readable
<1>3. output \in Seq(Data) /\ Len(output) = batch /\ \A k \in 1..batch : output[k] = buf[done + k]
  BY <1>2, OutputTyped
<1>4. PICK u \in Units, s \in Slots, y \in Nat, n \in Nat, h \in Nat, f \in Nat, data \in Seq(Data) :
        u = req.unit /\ s = slot /\ y = sector /\ n = batch /\ h = done /\ f = req.lba /\ data = output
  BY <1>1, <1>3
<1>5. /\ y + n <= Size[s] /\ content' = Written(s, y, data, n) /\ cache' = Updated(u, y, data)
      /\ tainted' = tainted \cup Aliases(u, s, y, n) \cup Duplicates(u, y, n) /\ tainted \subseteq tainted'
      /\ Len(data) = n /\ n <= Len(data) /\ unitSlot[u] = s /\ UNCHANGED unitSlot /\ y = f + h
      /\ req' = req /\ buf' = buf /\ done' = h + n
  BY <1>1, <1>2, <1>3, <1>4 DEF slot
<1>6. \A k \in 1..n : data[k] = buf[h + k]
  BY <1>3, <1>4
<1>7. ASSUME NEW i \in 0..(CacheSize - 1), cache'[i].valid
      PROVE  RightNext(cache'[i].unit, cache'[i].lba, cache'[i].data)
  <2>1. /\ cache[i].valid /\ cache'[i].unit = cache[i].unit /\ cache'[i].lba = cache[i].lba
        /\ Hit(i, u, y, n) \/ cache'[i] = cache[i]
    <3>1. /\ (cache'[i].valid => cache[i].valid) /\ cache'[i].unit = cache[i].unit
          /\ cache'[i].lba = cache[i].lba
      <4>1. TypeOK
        BY <1>1
      <4>2. cache' = Updated(u, y, data)
        BY <1>5
      <4> QED
        BY <4>1, <4>2, UpdatedEntries
    <3>2. Hit(i, u, y, n) \/ cache'[i] = cache[i]
      <4>1. TypeOK
        BY <1>1
      <4>2. cache' = Updated(u, y, data) /\ Len(data) = n
        BY <1>5
      <4> QED
        BY <4>1, <4>2, OthersKept
    <3> QED
      BY <1>7, <3>1, <3>2
  <2>2. Right(cache[i].unit, cache[i].lba, cache[i].data) /\ cache[i].unit \in Units
    BY <2>1 DEF Truth, CacheRight, Typed, TypeOK, Entries
  <2>3. CASE unitSlot[cache[i].unit] # s \/ cache[i].lba \notin y..(y + n - 1)
    <3>1. cache'[i] = cache[i]
      BY <1>5, <2>1, <2>3 DEF Hit
    <3> QED
      BY <1>1, <1>5, <2>2, <2>3, <3>1, RightPastWrite
  <2>4. CASE unitSlot[cache[i].unit] = s /\ cache[i].lba \in y..(y + n - 1) /\ cache[i].unit # u
    <3>1. cache'[i] = cache[i]
      BY <2>1, <2>4 DEF Hit
    <3>2. <<cache[i].unit, cache[i].lba>> \in Aliases(u, s, y, n)
      BY <1>1, <1>5, <2>1, <2>4, AliasTainted
    <3> QED
      BY <1>5, <2>1, <3>1, <3>2 DEF RightNext
  <2>5. CASE cache[i].lba \in y..(y + n - 1) /\ cache[i].unit = u
    <3>1. PICK x \in Nat : x = cache[i].lba
      BY DEF Typed, TypeOK, Entries, Lbas
    <3>2. PICK j \in 1..n : j = x - y + 1
      BY <2>5, <3>1
    <3>3. x = y + j - 1 /\ j \in 1..Len(data)
      BY <1>5, <3>2
    <3>4. CASE Cardinality(Copies(u, x)) > 1
      <4>1. <<u, x>> \in Duplicates(u, y, n)
        BY <2>5, <3>1, <3>4 DEF Duplicates
      <4> QED
        BY <1>5, <2>1, <2>5, <3>1, <4>1 DEF RightNext
    <3>5. CASE ~(Cardinality(Copies(u, x)) > 1)
      <4>1. cache'[i].data = data[j]
        <5>1. TypeOK /\ cache[i].valid
          BY <1>1, <2>1
        <5>2. cache[i].unit = u /\ cache[i].lba = y + j - 1 /\ ~(Cardinality(Copies(u, cache[i].lba)) > 1)
          BY <2>5, <3>1, <3>3, <3>5
        <5>3. j \in 1..Len(data)
          BY <3>3
        <5>4. Updated(u, y, data)[i].data = data[j]
          BY <5>1, <5>2, <5>3, OwnUpdated
        <5> QED
          BY <1>5, <5>4
      <4>2. RightNext(u, y + j - 1, data[j])
        BY <1>1, <1>5, RightInWrite
      <4> QED
        BY <2>1, <2>5, <3>1, <3>3, <4>1, <4>2
    <3> QED
      BY <3>4, <3>5
  <2> QED
    BY <2>3, <2>4, <2>5
<1>8. ASSUME NEW i \in 1..(h + n) PROVE RightNext(u, f + i - 1, buf[i])
  <2>1. CASE i <= h
    <3>1. i \in 1..done
      BY <1>4, <2>1
    <3>2. Right(u, f + i - 1, buf[i])
      BY <1>4, <3>1, TransferIs DEF Truth
    <3>3. f + i - 1 \notin y..(y + n - 1)
      BY <1>5, <2>1
    <3> QED
      BY <1>1, <1>5, <3>2, <3>3, RightPastWrite
  <2>2. CASE i > h
    <3>1. PICK j \in 1..n : j = i - h
      BY <2>2
    <3>2. y + j - 1 = f + i - 1 /\ h + j = i
      BY <1>5, <3>1
    <3>3. data[j] = buf[i]
      BY <1>6, <3>2
    <3>4. RightNext(u, y + j - 1, data[j])
      BY <1>1, <1>5, RightInWrite
    <3> QED
      BY <3>2, <3>3, <3>4
  <2> QED
    BY <2>1, <2>2
<1>9. \A i \in 1..done' : RightNext(req'.unit, req'.lba + i - 1, buf'[i])
  BY <1>4, <1>5, <1>8
<1> QED
  BY <1>7, <1>9, CacheRightThen, TransferThen DEF Truth

(* A batch taken for written by a late answer is marked, and so is what      *)
(* other units hold of the part of it that is on the disk.                   *)
LEMMA WriteLateTrue == ASSUME Typed, Truth, WriteLate PROVE Truth'
<1>1. /\ sector \in Nat /\ slot \in Slots /\ batch \in Nat /\ req.unit \in Units /\ done \in Nat
      /\ sector = req.lba + done /\ req.lba \in Nat /\ TypeOK
  BY BatchNumbers DEF Typed, TypeOK, WriteLate, Writing, sector
<1>2. /\ Writing /\ UNCHANGED <<unitSlot, req, buf>> /\ done' = done + batch
      /\ cache' = Updated(req.unit, sector, output)
  BY DEF WriteLate, Acknowledged
<1>3. output \in Seq(Data) /\ Len(output) = batch
  BY <1>2, OutputTyped
<1>4. PICK u \in Units, s \in Slots, y \in Nat, n \in Nat, h \in Nat, f \in Nat, data \in Seq(Data) :
        u = req.unit /\ s = slot /\ y = sector /\ n = batch /\ h = done /\ f = req.lba /\ data = output
  BY <1>1, <1>3
<1>5. PICK k \in 0..n :
        /\ k > 0 => y + n <= Size[s]
        /\ content' = Written(s, y, data, k)
        /\ tainted' = tainted \cup Aliases(u, s, y, k) \cup ({u} \X (y..(y + n - 1)))
  BY <1>4 DEF WriteLate, Writable, Readable
<1>6. /\ k \in Nat /\ k <= n /\ k <= Len(data) /\ (k > 0 => y + k <= Size[s]) /\ tainted \subseteq tainted'
      /\ TypeOK /\ UNCHANGED unitSlot /\ Len(data) = n /\ cache' = Updated(u, y, data) /\ y = f + h
      /\ req' = req /\ buf' = buf /\ done' = h + n
  <2>1. Len(data) = n /\ Size[s] \in Nat
    BY <1>3, <1>4, DiskAssumption
  <2>2. k \in Nat /\ k <= n /\ k <= Len(data) /\ (k > 0 => y + k <= Size[s]) /\ Len(data) = n
    BY <1>5, <2>1
  <2>3. TypeOK /\ UNCHANGED unitSlot /\ req' = req /\ buf' = buf
    BY <1>1, <1>2
  <2>4. cache' = Updated(u, y, data) /\ y = f + h /\ done' = h + n
    BY <1>1, <1>2, <1>4
  <2>5. tainted \subseteq tainted'
    BY <1>5
  <2> QED
    BY <2>2, <2>3, <2>4, <2>5
<1>7. ASSUME NEW i \in 0..(CacheSize - 1), cache'[i].valid
      PROVE  RightNext(cache'[i].unit, cache'[i].lba, cache'[i].data)
  <2>1. /\ cache[i].valid /\ cache'[i].unit = cache[i].unit /\ cache'[i].lba = cache[i].lba
        /\ Hit(i, u, y, n) \/ cache'[i] = cache[i]
    <3>1. /\ (cache'[i].valid => cache[i].valid) /\ cache'[i].unit = cache[i].unit
          /\ cache'[i].lba = cache[i].lba
      <4>1. TypeOK /\ cache' = Updated(u, y, data)
        BY <1>6
      <4> QED
        BY <4>1, UpdatedEntries
    <3>2. Hit(i, u, y, n) \/ cache'[i] = cache[i]
      <4>1. TypeOK
        BY <1>6
      <4>2. cache' = Updated(u, y, data) /\ Len(data) = n
        BY <1>6
      <4> QED
        BY <4>1, <4>2, OthersKept
    <3> QED
      BY <1>7, <3>1, <3>2
  <2>2. Right(cache[i].unit, cache[i].lba, cache[i].data) /\ cache[i].unit \in Units
    BY <2>1 DEF Truth, CacheRight, Typed, TypeOK, Entries
  <2>3. CASE cache[i].unit = u /\ cache[i].lba \in y..(y + n - 1)
    BY <1>5, <2>1, <2>3 DEF RightNext
  <2>4. CASE ~(cache[i].unit = u /\ cache[i].lba \in y..(y + n - 1))
    <3>1. cache'[i] = cache[i]
      BY <2>1, <2>4 DEF Hit
    <3>2. CASE unitSlot[cache[i].unit] = s /\ cache[i].lba \in y..(y + k - 1)
      <4>1. PICK x \in Nat : x = cache[i].lba
        BY DEF Typed, TypeOK, Entries, Lbas
      <4>2. cache[i].lba \in y..(y + n - 1)
        BY <1>6, <3>2, <4>1
      <4>3. cache[i].unit # u
        BY <2>4, <4>2
      <4>4. <<cache[i].unit, cache[i].lba>> \in Aliases(u, s, y, k)
        BY <1>6, <2>1, <3>2, <4>3, AliasTainted
      <4> QED
        BY <1>5, <3>1, <4>4 DEF RightNext
    <3>3. CASE unitSlot[cache[i].unit] # s \/ cache[i].lba \notin y..(y + k - 1)
      BY <1>5, <1>6, <2>2, <3>1, <3>3, RightPastWrite
    <3> QED
      BY <3>2, <3>3
  <2> QED
    BY <2>3, <2>4
<1>8. ASSUME NEW i \in 1..(h + n) PROVE RightNext(u, f + i - 1, buf[i])
  <2>1. CASE i <= h
    <3>1. i \in 1..done
      BY <1>4, <2>1
    <3>2. Right(u, f + i - 1, buf[i])
      BY <1>4, <3>1, TransferIs DEF Truth
    <3>3. f + i - 1 \notin y..(y + k - 1)
      BY <1>6, <2>1
    <3> QED
      BY <1>5, <1>6, <3>2, <3>3, RightPastWrite
  <2>2. CASE i > h
    <3>1. f + i - 1 \in y..(y + n - 1)
      BY <1>6, <2>2
    <3> QED
      BY <1>5, <3>1 DEF RightNext
  <2> QED
    BY <2>1, <2>2
<1>9. \A i \in 1..done' : RightNext(req'.unit, req'.lba + i - 1, buf'[i])
  BY <1>4, <1>6, <1>8
<1> QED
  BY <1>7, <1>9, CacheRightThen, TransferThen DEF Truth

(* What a failed write has left on the disk is marked where it is cached. *)
LEMMA WriteFailTrue == ASSUME Typed, Truth, WriteFail PROVE Truth'
<1>1. sector \in Nat /\ slot \in Slots /\ batch \in Nat /\ req.unit \in Units /\ TypeOK
  BY BatchNumbers DEF Typed, WriteFail, Writing
<1>2. Writing /\ done' = 0 /\ UNCHANGED <<cache, unitSlot>>
  BY DEF WriteFail, Finish, Return, driver
<1>3. output \in Seq(Data) /\ Len(output) = batch
  BY <1>2, OutputTyped
<1>4. PICK u \in Units, s \in Slots, y \in Nat, n \in Nat, data \in Seq(Data) :
        u = req.unit /\ s = slot /\ y = sector /\ n = batch /\ data = output
  BY <1>1, <1>3
<1>5. PICK k \in 0..n :
        /\ k > 0 => y + n <= Size[s]
        /\ content' = Written(s, y, data, k)
        /\ tainted' = tainted \cup Aliases(u, s, y, k) \cup Cached(u, y, k)
  BY <1>4 DEF WriteFail, Writable, Readable
<1>6. /\ k \in Nat /\ k <= Len(data) /\ (k > 0 => y + k <= Size[s]) /\ tainted \subseteq tainted'
      /\ TypeOK /\ UNCHANGED unitSlot
  <2>1. Len(data) = n /\ Size[s] \in Nat
    BY <1>3, <1>4, DiskAssumption
  <2> QED
    BY <1>1, <1>2, <1>5, <2>1
<1>7. ASSUME NEW i \in 0..(CacheSize - 1), cache'[i].valid
      PROVE  RightNext(cache'[i].unit, cache'[i].lba, cache'[i].data)
  <2>1. cache[i].valid /\ cache'[i] = cache[i]
    BY <1>2, <1>7
  <2>2. Right(cache[i].unit, cache[i].lba, cache[i].data) /\ cache[i].unit \in Units
    BY <2>1 DEF Truth, CacheRight, Typed, TypeOK, Entries
  <2>3. CASE cache[i].lba \notin y..(y + k - 1) \/ unitSlot[cache[i].unit] # s
    BY <1>5, <1>6, <2>1, <2>2, <2>3, RightPastWrite
  <2>4. CASE cache[i].lba \in y..(y + k - 1) /\ unitSlot[cache[i].unit] = s /\ cache[i].unit # u
    <3>1. <<cache[i].unit, cache[i].lba>> \in Aliases(u, s, y, k)
      BY <1>6, <2>1, <2>4, AliasTainted
    <3> QED
      BY <1>5, <2>1, <3>1 DEF RightNext
  <2>5. CASE cache[i].lba \in y..(y + k - 1) /\ cache[i].unit = u
    <3>1. i \in Copies(cache[i].unit, cache[i].lba)
      BY <2>1 DEF Copies, Typed, TypeOK
    <3>2. <<cache[i].unit, cache[i].lba>> \in Cached(u, y, k)
      BY <2>5, <3>1 DEF Cached
    <3> QED
      BY <1>5, <2>1, <3>2 DEF RightNext
  <2> QED
    BY <2>3, <2>4, <2>5
<1> QED
  BY <1>2, <1>7, CacheRightThen, NothingTransferredNext DEF Truth

(* Truth is inductive, given the types. *)
LEMMA StepTrue == ASSUME Typed, Truth, [Next]_vars PROVE Truth'
<1>1. ASSUME UNCHANGED <<cache, content, unitSlot, tainted>>, done' = 0 \/ UNCHANGED <<req, done, buf>>
      PROVE  Truth'
  BY <1>1, QuietTrue
<1>2. CASE UNCHANGED vars
  BY <1>1, <1>2 DEF vars, device, driver, request, history
<1>3. ASSUME NEW u \in Units, MediaCheck(u) PROVE Truth'
  BY <1>1, <1>3 DEF MediaCheck, Idle, device
<1>4. ASSUME NEW u, NEW l, NEW n, StartRead(u, l, n) PROVE Truth'
  BY <1>1, <1>4 DEF StartRead, Start, device, driver, history
<1>5. ASSUME NEW u, NEW l, NEW data, StartWrite(u, l, data) PROVE Truth'
  BY <1>1, <1>5 DEF StartWrite, Start, device, history
<1>6. CASE Complete \/ PastEnd \/ ReadDamaged \/ ReadRetry \/ ReadFail
  BY <1>1, <1>6 DEF Complete, PastEnd, ReadDamaged, ReadRetry, ReadFail, Finish, Return, device, driver, history
<1>7. CASE Ask
  BY <1>3, <1>4, <1>5, <1>7, BuildBpbTrue, SetUnitMapTrue DEF Ask
<1>8. CASE Step
  BY <1>6, <1>8, ReadCachedTrue, ReadFetchTrue, ReadLateTrue, WriteBatchTrue, WriteLateTrue, WriteFailTrue DEF Step
<1> QED
  BY <1>2, <1>7, <1>8, ChangeMediumTrue DEF Next

(* Nothing is cached and nothing done at first. *)
LEMMA InitTrue == Init => Truth
  BY NothingTransferred DEF Init, Truth, CacheRight, Empty

(* StaleIsExplained: the cache (cache_store, cache_update_or_invalidate,     *)
(* cache_invalidate_unit) is current but for second copies, aliases,         *)
(* unacknowledged writes, changed media and late answers.                    *)
THEOREM StaleExplained == Spec => []StaleIsExplained
<1>1. Typed /\ Truth => StaleIsExplained
  BY CacheRightIs DEF Typed, Truth
<1> QED
  BY <1>1, InitTyped, StepTyped, InitTrue, StepTrue, PTL DEF Spec

(* TransferIsTrue: what Input_cmd and Output_cmd report as done is on the    *)
(* disk, but for the same reasons.                                           *)
THEOREM TransfersTrue == Spec => []TransferIsTrue
<1>1. Truth => TransferIsTrue
  BY DEF Truth
<1> QED
  BY <1>1, InitTyped, StepTyped, InitTrue, StepTrue, PTL DEF Spec

-----------------------------------------------------------------------------
(* The BPB follows the map. *)

(* Steps that leave BPBs, map and disk information alone, and mark what       *)
(* becomes of sector 0.                                                      *)
LEMMA MapStays ==
    ASSUME TypeOK, BpbFollowsMap, UNCHANGED <<unitSlot, mediaChanged, infoCache, bpbSectors>>,
           tainted \subseteq tainted', Outdate \/ UNCHANGED <<content, bpbAge>>
    PROVE  BpbFollowsMap'
<1> SUFFICES ASSUME NEW u \in Units
             PROVE  /\ bpbAge'[u] = "current" => bpbSectors[u] = BpbOf[content'[unitSlot[u]][0]]
                    /\ bpbAge'[u] = "wrong" => <<u, 0>> \in tainted' \/ mediaChanged[u]
                    /\ bpbAge'[u] = "old" => mediaChanged[u]
                    /\ bpbAge'[u] = "kept" => mediaChanged[u] \/ NoDisk(infoCache[u])
  BY DEF BpbFollowsMap, NoDisk
<1>1. \/ bpbAge'[u] = "outdated"
      \/ /\ bpbAge'[u] = bpbAge[u]
         /\ bpbAge[u] = "current" => content'[unitSlot[u]][0] = content[unitSlot[u]][0]
  BY DEF Outdate, TypeOK
<1> QED
  BY <1>1 DEF BpbFollowsMap

\* What BpbFollowsMap says of one unit, after a step.
FollowsNext(u) ==
    /\ bpbAge'[u] = "current" => bpbSectors'[u] = BpbOf[content'[unitSlot'[u]][0]]
    /\ bpbAge'[u] = "wrong" => <<u, 0>> \in tainted' \/ mediaChanged'[u]
    /\ bpbAge'[u] = "old" => mediaChanged'[u]
    /\ bpbAge'[u] = "kept" => mediaChanged'[u] \/ NoDisk(infoCache'[u])

(* A step that is about one unit. *)
LEMMA MapStaysElsewhere ==
    ASSUME BpbFollowsMap, NEW u \in Units, FollowsNext(u), UNCHANGED content,
           \A v \in Units : v # u =>
              /\ bpbAge'[v] = bpbAge[v] /\ mediaChanged'[v] = mediaChanged[v] /\ infoCache'[v] = infoCache[v]
              /\ unitSlot'[v] = unitSlot[v] /\ bpbSectors'[v] = bpbSectors[v]
              /\ (<<v, 0>> \in tainted => <<v, 0>> \in tainted')
    PROVE  BpbFollowsMap'
<1>1. ASSUME NEW v \in Units PROVE FollowsNext(v)
  <2>1. CASE v # u
    BY <2>1 DEF BpbFollowsMap, FollowsNext
  <2> QED
    BY <2>1
<1> QED
  BY <1>1 DEF BpbFollowsMap, FollowsNext, NoDisk

(* BpbFollowsMap is kept by every step: a BPB turns old only in              *)
(* SET_UNIT_MAP, which sets media_changed; Build_bpb_cmd keeps one only when *)
(* the device reported no disk, which info_cache then holds until the next   *)
(* change of the map, and takes one from a sector 0 that the cache holds     *)
(* then, so that it is wrong only if that sector is.                         *)
LEMMA MapKept == ASSUME Typed, Truth, BpbFollowsMap, [Next]_vars PROVE BpbFollowsMap'
<1>1. ASSUME NEW u \in Units, MediaCheck(u) PROVE BpbFollowsMap'
  <2>1. /\ UNCHANGED <<content, unitSlot, bpbSectors, tainted>>
        /\ \A v \in Units : v # u => /\ bpbAge'[v] = bpbAge[v] /\ mediaChanged'[v] = mediaChanged[v]
                                     /\ infoCache'[v] = infoCache[v]
    BY <1>1 DEF MediaCheck, Tell, Typed, TypeOK
  <2>2. CASE mediaChanged[u]
    <3>1. bpbAge'[u] \in {bpbAge[u], "told"} /\ (bpbAge[u] # "current" => bpbAge'[u] = "told")
      BY <1>1, <2>2 DEF MediaCheck, Tell, Typed, TypeOK
    <3>2. FollowsNext(u)
      BY <2>1, <3>1 DEF BpbFollowsMap, FollowsNext
    <3> QED
      BY <2>1, <3>2, MapStaysElsewhere
  <2>3. CASE ~mediaChanged[u]
    <3>1. bpbAge[u] # "old" /\ (bpbAge[u] = "kept" => NoDisk(infoCache[u]))
      BY <2>3 DEF BpbFollowsMap
    <3>2. PICK o \in InfoOutcomes(u) :
            /\ infoCache' = [infoCache EXCEPT ![u] = o.got.info] /\ UNCHANGED mediaChanged
            /\ Tell(u) \/ UNCHANGED bpbAge
      BY <1>1, <2>3 DEF MediaCheck
    <3>3. bpbAge'[u] \in {bpbAge[u], "told"}
      BY <3>2 DEF Tell, Typed, TypeOK
    <3>4. bpbAge'[u] = "kept" => infoCache'[u] = infoCache[u]
      BY <3>1, <3>2, <3>3, InfoTyped DEF NoDisk, Typed, TypeOK
    <3>5. FollowsNext(u)
      BY <2>1, <2>3, <3>1, <3>2, <3>3, <3>4 DEF BpbFollowsMap, FollowsNext
    <3> QED
      BY <2>1, <3>5, MapStaysElsewhere
  <2> QED
    BY <2>2, <2>3
<1>2. ASSUME NEW u \in Units, BuildBpb(u) PROVE BpbFollowsMap'
  <2>1. UNCHANGED <<content, unitSlot, mediaChanged>> /\ tainted \subseteq tainted'
    BY <1>2, BuildBpbIs
  <2>2. PICK info \in Flags \cup {Unknown} :
          /\ infoCache' = [infoCache EXCEPT ![u] = info]
          /\ infoCache[u] # Unknown => info = infoCache[u]
          /\ \/ /\ NoDisk(info) /\ UNCHANGED bpbSectors
                /\ bpbAge' = [bpbAge EXCEPT ![u] = IF @ = "current" THEN @ ELSE "kept"]
             \/ \E d \in Data : BpbFrom(u, d) /\ (OnDisk(u, 0, d) \/ <<u, 0>> \in tainted')
             \/ ~NoDisk(info) /\ UNCHANGED <<bpbSectors, bpbAge>>
    <3>1. ASSUME NEW d \in Data, NEW i \in 0..(CacheSize - 1),
                 cache[i].valid, cache[i].unit = u, cache[i].lba = 0, cache[i].data = d
          PROVE  OnDisk(u, 0, d) \/ <<u, 0>> \in tainted
      <4>1. Right(cache[i].unit, cache[i].lba, cache[i].data)
        BY <3>1 DEF Truth, CacheRight
      <4> QED
        BY <3>1, <4>1 DEF Right
    <3>2. PICK info \in Flags \cup {Unknown} :
            /\ infoCache' = [infoCache EXCEPT ![u] = info]
            /\ infoCache[u] # Unknown => info = infoCache[u]
            /\ \/ /\ NoDisk(info) /\ UNCHANGED bpbSectors
                  /\ bpbAge' = [bpbAge EXCEPT ![u] = IF @ = "current" THEN @ ELSE "kept"]
               \/ \E d \in Data :
                    /\ BpbFrom(u, d) /\ UNCHANGED tainted
                    /\ \E i \in 0..(CacheSize - 1) :
                         cache[i].valid /\ cache[i].unit = u /\ cache[i].lba = 0 /\ cache[i].data = d
               \/ \E d \in Data :
                    /\ BpbFrom(u, d)
                    /\ tainted' = IF OnDisk(u, 0, d) THEN tainted ELSE tainted \cup {<<u, 0>>}
               \/ ~NoDisk(info) /\ UNCHANGED <<bpbSectors, bpbAge>>
      BY <1>2, BuildBpbIs
    <3>3. CASE \E d \in Data :
                    /\ BpbFrom(u, d) /\ UNCHANGED tainted
                    /\ \E i \in 0..(CacheSize - 1) :
                         cache[i].valid /\ cache[i].unit = u /\ cache[i].lba = 0 /\ cache[i].data = d
      BY <3>1, <3>2, <3>3
    <3>4. CASE \E d \in Data :
                    /\ BpbFrom(u, d)
                    /\ tainted' = IF OnDisk(u, 0, d) THEN tainted ELSE tainted \cup {<<u, 0>>}
      BY <3>2, <3>4
    <3> QED
      BY <3>2, <3>3, <3>4
  <2>3. infoCache'[u] = info /\ \A v \in Units : v # u => infoCache'[v] = infoCache[v]
    BY <2>2 DEF Typed, TypeOK
  <2>4. CASE /\ NoDisk(info) /\ UNCHANGED bpbSectors
             /\ bpbAge' = [bpbAge EXCEPT ![u] = IF @ = "current" THEN @ ELSE "kept"]
    <3>1. bpbAge'[u] = (IF bpbAge[u] = "current" THEN "current" ELSE "kept")
          /\ \A v \in Units : v # u => bpbAge'[v] = bpbAge[v]
      BY <2>4 DEF Typed, TypeOK
    <3>2. FollowsNext(u)
      BY <2>1, <2>3, <2>4, <3>1 DEF BpbFollowsMap, FollowsNext
    <3> QED
      BY <2>1, <2>3, <2>4, <3>1, <3>2, MapStaysElsewhere
  <2>5. CASE \E d \in Data : BpbFrom(u, d) /\ (OnDisk(u, 0, d) \/ <<u, 0>> \in tainted')
    <3>1. PICK d \in Data : BpbFrom(u, d) /\ (OnDisk(u, 0, d) \/ <<u, 0>> \in tainted')
      BY <2>5
    <3>2. /\ bpbSectors'[u] = BpbOf[d] /\ bpbAge'[u] = IF OnDisk(u, 0, d) THEN "current" ELSE "wrong"
          /\ \A v \in Units : v # u => bpbAge'[v] = bpbAge[v] /\ bpbSectors'[v] = bpbSectors[v]
      BY <3>1 DEF BpbFrom, Typed, TypeOK
    <3>3. OnDisk(u, 0, d) => content[unitSlot[u]][0] = d
      BY DEF OnDisk
    <3>4. FollowsNext(u)
      BY <2>1, <3>1, <3>2, <3>3 DEF FollowsNext
    <3> QED
      BY <2>1, <2>3, <3>2, <3>4, MapStaysElsewhere
  <2>6. CASE ~NoDisk(info) /\ UNCHANGED <<bpbSectors, bpbAge>>
    <3>1. ~NoDisk(infoCache[u])
      BY <2>2, <2>6 DEF NoDisk
    <3>2. FollowsNext(u)
      BY <2>1, <2>6, <3>1 DEF BpbFollowsMap, FollowsNext
    <3> QED
      BY <2>1, <2>3, <2>6, <3>2, MapStaysElsewhere
  <2> QED
    BY <2>2, <2>4, <2>5, <2>6
<1>3. ASSUME NEW u \in Units, NEW s \in Slots, SetUnitMap(u, s) PROVE BpbFollowsMap'
  <2>1. /\ UNCHANGED <<content, bpbSectors>>
        /\ \A v \in Units : v # u => /\ bpbAge'[v] = bpbAge[v] /\ mediaChanged'[v] = mediaChanged[v]
                                     /\ infoCache'[v] = infoCache[v] /\ unitSlot'[v] = unitSlot[v]
    BY <1>3 DEF SetUnitMap, device, Typed, TypeOK
  <2>2. \A v \in Units : v # u => (<<v, 0>> \in tainted => <<v, 0>> \in tainted')
    BY <1>3 DEF SetUnitMap
  <2>3. /\ mediaChanged'[u] = TRUE
        /\ bpbAge'[u] = "current" => bpbAge[u] = "current" /\ unitSlot'[u] = unitSlot[u]
    BY <1>3 DEF SetUnitMap, Typed, TypeOK
  <2>4. FollowsNext(u)
    BY <2>1, <2>3 DEF BpbFollowsMap, FollowsNext
  <2> QED
    BY <2>1, <2>2, <2>4, MapStaysElsewhere
<1>4. ASSUME NEW u \in Units, NEW l, NEW data, StartWrite(u, l, data) PROVE BpbFollowsMap'
  <2>1. PICK o \in InfoOutcomes(u) :
          /\ infoCache' = [infoCache EXCEPT ![u] = o.got.info]
          /\ UNCHANGED <<content, unitSlot, bpbAge, mediaChanged, bpbSectors, tainted>>
    BY <1>4 DEF StartWrite, history
  <2>2. \A v \in Units : v # u => infoCache'[v] = infoCache[v]
    BY <2>1 DEF Typed, TypeOK
  <2>3. NoDisk(infoCache[u]) => infoCache'[u] = infoCache[u]
    BY <2>1, InfoTyped DEF NoDisk, Typed, TypeOK
  <2>4. FollowsNext(u)
    BY <2>1, <2>3 DEF BpbFollowsMap, FollowsNext
  <2> QED
    BY <2>1, <2>2, <2>4, MapStaysElsewhere
<1>5. ASSUME UNCHANGED <<unitSlot, mediaChanged, infoCache, bpbSectors>>, tainted \subseteq tainted',
             Outdate \/ UNCHANGED <<content, bpbAge>>
      PROVE  BpbFollowsMap'
  BY <1>5, MapStays DEF Typed
<1>6. CASE Ask
  <2>1. ASSUME NEW u \in Units, NEW l, NEW n, StartRead(u, l, n) PROVE BpbFollowsMap'
    BY <1>5, <2>1 DEF StartRead, device, driver, history
  <2> QED
    BY <1>1, <1>2, <1>3, <1>4, <1>6, <2>1 DEF Ask
<1>7. CASE Step \/ (\E s \in Slots : ChangeMedium(s)) \/ UNCHANGED vars
  <2>1. CASE Complete \/ PastEnd \/ ReadCached \/ ReadDamaged \/ ReadRetry \/ ReadFail \/ UNCHANGED vars
    BY <1>5, <2>1 DEF Complete, PastEnd, ReadCached, ReadDamaged, ReadRetry, ReadFail, vars, device, driver, history
  <2>2. CASE ReadFetch \/ ReadLate
    BY <1>5, <2>2 DEF ReadFetch, ReadLate, Fetched
  <2>3. CASE WriteBatch \/ WriteLate \/ WriteFail
    BY <1>5, <2>3 DEF WriteBatch, WriteLate, Acknowledged, WriteFail, driver
  <2>4. CASE \E s \in Slots : ChangeMedium(s)
    BY <1>5, <2>4 DEF ChangeMedium, driver
  <2> QED
    BY <1>7, <2>1, <2>2, <2>3, <2>4 DEF Step
<1> QED
  BY <1>6, <1>7 DEF Next

(* BpbFollowsMap: no unit works with another slot's BPB unless DOS is about  *)
(* to be told or the new slot was reported empty, and a BPB made since is    *)
(* the disk's own unless the sector 0 that was cached is known to be in      *)
(* doubt (Media_check_cmd, Build_bpb_cmd, SET_UNIT_MAP).                     *)
THEOREM BpbsFollowMap == Spec => []BpbFollowsMap
<1>1. Init => BpbFollowsMap
  BY DEF Init, BpbFollowsMap
<1> QED
  BY <1>1, InitTyped, StepTyped, InitTrue, StepTrue, MapKept, PTL DEF Spec

-----------------------------------------------------------------------------
(* The driver implements BlockDevice. *)

\* What the request at hand has moved.
Moved == SubSeq(buf, 1, done)

(* What was moved is the beginning of the buffer.                          *)
LEMMA MovedIs ==
    ASSUME Typed
    PROVE  /\ Moved \in Seq(Data) /\ Len(Moved) = done /\ done \in Nat /\ done <= req.count
           /\ \A i \in 1..done : Moved[i] = buf[i]
<1>1. buf \in Seq(Data) /\ done \in Nat /\ done <= req.count
  BY DEF Typed, TypeOK
<1>2. done <= Len(buf)
  <2>1. pc \in {"idle", "read", "write"}
    BY DEF Typed, TypeOK
  <2> QED
    BY <1>1, <2>1 DEF Typed, Progress
<1> QED
  BY <1>1, <1>2 DEF Moved

(* The sectors of the next exchange, in both modules' words.               *)
LEMMA AheadIs ==
    ASSUME Typed, NEW k
    PROVE  /\ Device!Ahead(k) = sector..(sector + k - 1)
           /\ Device!Seen(k) = {u \in Units : unitSlot[u] = slot} \X (sector..(sector + k - 1))
           /\ Device!Own(k) = {req.unit} \X (sector..(sector + k - 1))
           /\ Device!Slot = slot
<1>1. Len(SubSeq(buf, 1, done)) = done
  BY MovedIs DEF Moved
<1>2. Device!Ahead(k) = sector..(sector + k - 1)
  BY <1>1 DEF Device!Ahead, sector
<1>3. Device!Slot = slot
  BY DEF Device!Slot, slot
<1> QED
  BY <1>2, <1>3 DEF Device!Seen, Device!Own

(* A request of the disk's state, or one that is turned away.              *)
LEMMA ControlMapped ==
    ASSUME Idle, status' # "none", UNCHANGED <<content, unitSlot>>, NEW u \in Units,
           \/ tainted' = tainted
           \/ "late" \in Disturbances /\ tainted' = tainted \cup {<<u, 0>>}
    PROVE  Device!Control
<1>1. Device!DoubtOnly(IF "late" \in Disturbances THEN {<<u, 0>>} ELSE {})
  BY DEF Device!DoubtOnly
<1> QED
  BY <1>1 DEF Idle, Device!Control

(* A request that begins. *)
LEMMA StartMapped ==
    ASSUME Typed', pc = "idle", NEW op \in {"read", "write"}, NEW u, NEW l, NEW n, Start(op, u, l, n),
           UNCHANGED <<content, unitSlot, tainted>>
    PROVE  Device!Ask
<1>1. pc' = op /\ done' = 0 /\ status' = "none"
  BY DEF Start
<1>2. req' \in [unit: Units, lba: Nat, count: Nat] /\ buf' \in Seq(Data)
  BY DEF Typed, TypeOK
<1>3. pc' = "write" => Len(buf') = req'.count
  BY DEF Typed, Progress
<1>4. SubSeq(buf', 1, done') = << >>
  BY <1>1, <1>2
<1>5. << >> \in Seq(Data) /\ Len(<< >>) = 0
  OBVIOUS
<1>6. PICK data \in Seq(Data) : data = IF pc' = "write" THEN buf' ELSE << >>
  BY <1>2, <1>5
<1>7. Len(data) = IF pc' = "write" THEN req'.count ELSE 0
  BY <1>3, <1>5, <1>6
<1>8. [op |-> pc', unit |-> req'.unit, lba |-> req'.lba, count |-> req'.count, data |-> data] \in Device!Requests
  BY <1>1, <1>2 DEF Device!Requests
<1> QED
  BY <1>1, <1>4, <1>6, <1>7, <1>8 DEF Device!Ask

(* A request that ends.  It ends as Finish does, or with an error before   *)
(* all sectors are done.                                                   *)
LEMMA ReturnMapped ==
    ASSUME Typed, Finish \/ (remaining > 0 /\ Return("NOT_FOUND"))
    PROVE  Device!Return
<1>1. /\ Len(SubSeq(buf, 1, done)) = done /\ SubSeq(buf, 1, done) \in Seq(Data)
      /\ done \in Nat /\ done <= req.count /\ req.count \in Nat
  BY MovedIs DEF Moved, Typed, TypeOK
<1>2. SubSeq(buf, 1, done) # << >> <=> done # 0
  <2>1. \A m \in Seq(Data) : m # << >> <=> Len(m) # 0
    OBVIOUS
  <2> QED
    BY <1>1, <2>1
<1>3. pc' = "idle" /\ buf' = << >> /\ done' = 0 /\ SubSeq(buf', 1, done') = << >>
  BY DEF Finish, Return
<1>4. CASE Finish
  BY <1>1, <1>2, <1>3, <1>4 DEF Finish, Return, Device!Return
<1>5. CASE remaining > 0 /\ Return("NOT_FOUND")
  <2>1. status' = "NOT_FOUND" /\ done # req.count
    BY <1>1, <1>5 DEF Return, remaining
  <2> QED
    BY <1>1, <1>2, <1>3, <2>1 DEF Device!Return
<1> QED
  BY <1>4, <1>5

(* Some sectors are read. *)
LEMMA ReadMapped ==
    ASSUME Typed, Typed', TransferIsTrue', Reading, done' > done,
           \A i \in 1..done : buf'[i] = buf[i],
           UNCHANGED <<content, unitSlot, pc, req, status>>, tainted \subseteq tainted',
           \A p \in tainted' \ tainted : "late" \in Disturbances /\ p[1] = req.unit /\ p[2] >= sector
    PROVE  Device!Read
<1>1. /\ Len(SubSeq(buf, 1, done)) = done /\ done \in Nat
      /\ \A i \in 1..done : SubSeq(buf, 1, done)[i] = buf[i]
  BY MovedIs DEF Moved
<1>2. pc' = "read" /\ pc = "read"
  BY DEF Reading
<1>3. buf' \in Seq(Data) /\ Len(buf') = done' /\ done' \in 0..req'.count /\ req'.count \in Nat
  BY <1>2 DEF Typed, TypeOK, Progress
<1>4. SubSeq(buf', 1, done') = buf'
  BY <1>3
<1>5. Len(buf') \in (done + 1)..req.count
  BY <1>1, <1>3
<1>6. \A i \in (done + 1)..done' :
        \/ req.lba + i - 1 \in DOMAIN content[unitSlot[req.unit]]
              /\ content[unitSlot[req.unit]][req.lba + i - 1] = buf'[i]
        \/ <<req.unit, req.lba + i - 1>> \in tainted'
  <2>1. \A i \in (done + 1)..done' : i \in 1..done'
    BY <1>1
  <2>2. \A i \in 1..done' :
          \/ req.lba + i - 1 \in DOMAIN content[unitSlot[req.unit]]
                /\ content[unitSlot[req.unit]][req.lba + i - 1] = buf'[i]
          \/ <<req.unit, req.lba + i - 1>> \in tainted'
    BY DEF TransferIsTrue, OnDisk
  <2> QED
    BY <2>1, <2>2
<1>7. sector = req.lba + done
  BY DEF sector
<1> QED
  BY <1>1, <1>2, <1>3, <1>4, <1>5, <1>6, <1>7 DEF Device!Read, Device!Slot

(* The first k sectors of an exchange on the disk.                         *)
LEMMA PutMapped ==
    ASSUME Typed, Writing, NEW k \in 0..batch, content' = Written(slot, sector, output, k),
           k > 0 => sector + batch <= Size[slot]
    PROVE  Device!Put(k)
<1>1. /\ sector \in Nat /\ slot \in Slots /\ batch \in Nat /\ req.unit \in Units /\ done \in Nat
      /\ sector = req.lba + done /\ req.lba \in Nat /\ TypeOK /\ Size[slot] \in Nat
  BY BatchNumbers, DiskAssumption DEF Typed, TypeOK, Writing, sector
<1>2. PICK u \in Units, s \in Slots, y \in Nat, h \in Nat, f \in Nat :
        u = req.unit /\ s = slot /\ y = sector /\ h = done /\ f = req.lba
  BY <1>1
<1>3. /\ y = f + h /\ unitSlot[u] = s /\ k \in Nat /\ k <= batch /\ (k > 0 => y + k <= Size[s])
  BY <1>1, <1>2 DEF slot
<1>4. \A j \in 1..k : output[j] = buf[h + j]
  <2>1. \A j \in 1..k : j \in 1..batch
    BY <1>1, <1>3
  <2> QED
    BY <1>2, <2>1, OutputTyped
<1>5. /\ Device!Ahead(k) = y..(y + k - 1) /\ Device!Slot = s
      /\ Device!Seen(k) = {v \in Units : unitSlot[v] = s} \X (y..(y + k - 1))
  BY <1>2, AheadIs
<1>6. content' = [content EXCEPT ![s] = [x \in DOMAIN content[s] |->
                    IF x \in y..(y + k - 1) THEN buf[x - f + 1] ELSE content[s][x]]]
  <2>1. DOMAIN content[s] = 0..(Size[s] - 1) /\ Size[s] \in Nat
    BY <1>1, <1>2, ContentOf DEF TypeOK
  <2>2. \A x \in DOMAIN content[s] : x - y \in 0..(k - 1) <=> x \in y..(y + k - 1)
    BY <1>3, <2>1
  <2>3. ASSUME NEW x \in DOMAIN content[s], x \in y..(y + k - 1) PROVE output[x - y + 1] = buf[x - f + 1]
    <3>1. x - y + 1 \in 1..k /\ h + (x - y + 1) = x - f + 1
      BY <1>3, <2>1, <2>3
    <3> QED
      BY <1>4, <3>1
  <2>4. [x \in DOMAIN content[s] |-> IF x - y \in 0..(k - 1) THEN output[x - y + 1] ELSE content[s][x]]
        = [x \in DOMAIN content[s] |-> IF x \in y..(y + k - 1) THEN buf[x - f + 1] ELSE content[s][x]]
    BY <2>2, <2>3
  <2> QED
    BY <1>2, <2>4 DEF Written
<1>7. Len(SubSeq(buf, 1, done)) = done
  BY MovedIs DEF Moved
<1>8. pc = "write"
  BY DEF Writing
<1> QED
  BY <1>2, <1>3, <1>5, <1>6, <1>7, <1>8 DEF Device!Put

(* Other units' copies of what was written are among those that see it.    *)
LEMMA AliasesSeen == ASSUME Typed, NEW k PROVE Aliases(req.unit, slot, sector, k) \subseteq Device!Seen(k)
  BY AheadIs DEF Aliases, SectorsOf

(* The unit that writes is one of those. *)
LEMMA OwnSeen == ASSUME Typed, NEW k PROVE Device!Own(k) \subseteq Device!Seen(k)
<1>1. req.unit \in Units /\ unitSlot[req.unit] = slot
  BY DEF Typed, TypeOK, slot
<1> QED
  BY <1>1, AheadIs

(* Some sectors are taken for written, the first j of which are.           *)
LEMMA WriteMapped ==
    ASSUME Typed, Writing, Acknowledged, NEW j \in 0..batch, Device!Put(j),
           Device!DoubtOnly(Device!Seen(j) \cup Device!Own(batch)),
           j < batch => "late" \in Disturbances /\ Device!Own(batch) \subseteq tainted'
    PROVE  Device!Write
<1>1. batch \in Nat \ {0} /\ done \in Nat /\ done + batch <= req.count /\ req.count \in Nat
  BY BatchNumbers DEF Typed, TypeOK, Writing
<1>2. Len(SubSeq(buf, 1, done)) = done
  BY MovedIs DEF Moved
<1>3. /\ pc = "write" /\ UNCHANGED <<unitSlot, pc, req, buf, status>> /\ done' = done + batch
  BY DEF Writing, Acknowledged
<1>4. batch \in 1..(req.count - done)
  BY <1>1
<1> QED
  BY <1>2, <1>3, <1>4 DEF Device!Write

(* A sector from the cache. *)
LEMMA ReadCachedImplements == ASSUME Typed, Typed', TransferIsTrue', ReadCached PROVE Device!Read
<1>1. Reading /\ done \in Nat /\ Len(buf) = done /\ buf \in Seq(Data)
  BY DEF ReadCached, Reading, Typed, TypeOK, Progress
<1>2. /\ done' = done + 1 /\ UNCHANGED <<content, unitSlot, pc, req, status, tainted>>
      /\ buf' = Append(buf, cache[FirstCopy(req.unit, sector)].data)
  BY DEF ReadCached, device, driver, history
<1>3. done' > done /\ \A i \in 1..done : buf'[i] = buf[i]
  BY <1>1, <1>2
<1> QED
  BY <1>1, <1>2, <1>3, ReadMapped

(* What a fetch adds to the buffer leaves alone what is there.             *)
LEMMA FetchedMore ==
    ASSUME Typed, Reading, NEW data \in Seq(Data), Len(data) = fetch, Fetched(data)
    PROVE  /\ done' > done /\ \A i \in 1..done : buf'[i] = buf[i]
           /\ UNCHANGED <<content, unitSlot, pc, req, status>>
<1>1. batch \in Nat \ {0} /\ fetch \in Nat \ {0} /\ batch <= fetch /\ done \in Nat
  BY BatchNumbers DEF Typed, Reading
<1>2. buf \in Seq(Data) /\ Len(buf) = done
  BY DEF Reading, Typed, TypeOK, Progress
<1>3. PICK more \in Seq(Data) : more = SubSeq(data, 1, batch)
  <2>1. \A b \in 1..Len(data) : SubSeq(data, 1, b) \in Seq(Data)
    OBVIOUS
  <2>2. batch \in 1..Len(data)
    BY <1>1
  <2> QED
    BY <2>1, <2>2
<1>4. buf' = buf \o more /\ done' = done + batch
  BY <1>3 DEF Fetched
<1>5. \A i \in 1..done : (buf \o more)[i] = buf[i]
  BY <1>2
<1>6. done' > done
  <2>1. done' = done + batch
    BY <1>4
  <2> QED
    BY <1>1, <2>1
<1>7. UNCHANGED <<content, unitSlot, pc, req, status>>
  BY DEF Fetched
<1> QED
  BY <1>4, <1>5, <1>6, <1>7

(* Sectors from the device. *)
LEMMA ReadFetchImplements == ASSUME Typed, Typed', TransferIsTrue', ReadFetch PROVE Device!Read
<1>1. Reading /\ sector \in Nat /\ slot \in Slots /\ fetch \in Nat
  BY BatchNumbers DEF Typed, ReadFetch, Missing, Reading
<1>2. PICK data \in Seq(Data) : data = Sectors(slot, sector, fetch)
  BY <1>1, SectorsAreData DEF ReadFetch, Typed, TypeOK
<1>3. Len(data) = fetch
  <2>1. content \in Contents /\ Readable(slot, sector, fetch)
    BY DEF ReadFetch, Typed, TypeOK
  <2> QED
    BY <1>1, <1>2, <2>1, SectorsAreData
<1>4. Fetched(data) /\ UNCHANGED tainted
  BY <1>2 DEF ReadFetch
<1> QED
  BY <1>1, <1>3, <1>4, FetchedMore, ReadMapped

\* An answer is late only where that is among the disturbances.
LateOnly == late.op # "none" => "late" \in Disturbances

\* The same of any answer.
LateAnswer(a) == a.op # "none" => "late" \in Disturbances

(* An exchange brings the device's own answer, none, or a late one, and only *)
(* where there are late ones does it leave one behind.                     *)
LEMMA LateExchanged ==
    ASSUME NEW op, op # "none", NEW waiting, LateAnswer(waiting), NEW own, NEW o \in Exchanged(op, waiting, own)
    PROVE  LateAnswer(o.late) /\ (o.got \in {own, NoAnswer} \/ "late" \in Disturbances)
  BY DEF LateAnswer, Exchanged, Unanswered, NoAnswer

(* So it is with the disk's information. *)
LEMMA LateInfo == ASSUME LateOnly, NEW u, NEW o \in InfoOutcomes(u) PROVE LateAnswer(o.late)
  BY LateExchanged DEF LateOnly, LateAnswer, InfoOutcomes

(* Sector 0 as the device sends it is the disk's. *)
LEMMA BootOnDisk ==
    ASSUME Typed, NEW u \in Units, BootAnswer(u).op = "boot"
    PROVE  OnDisk(u, 0, BootAnswer(u).data[1])
<1>1. PICK s \in Slots : s = unitSlot[u]
  BY DEF Typed, TypeOK
<1>2. Readable(s, 0, 1) /\ content \in Contents /\ BootAnswer(u).data = Sectors(s, 0, 1)
  BY <1>1 DEF BootAnswer, DataAnswer, NoAnswer, Typed, TypeOK
<1>3. 0 \in Nat /\ 1 \in Nat /\ 1 \in 1..1 /\ 0 + 1 - 1 = 0
  OBVIOUS
<1>4. 0 \in DOMAIN content[s] /\ Sectors(s, 0, 1)[1] = content[s][0]
  BY <1>2, <1>3, SectorsAreData
<1> QED
  BY <1>1, <1>2, <1>4 DEF OnDisk

(* Only a late answer to Build_bpb_cmd puts its sector 0 in doubt. *)
LEMMA ReadBootDoubts ==
    ASSUME Typed, NEW u \in Units, NEW waiting, LateAnswer(waiting), ReadBoot(u, waiting)
    PROVE  /\ LateAnswer(late')
           /\ \/ tainted' = tainted
              \/ "late" \in Disturbances /\ tainted' = tainted \cup {<<u, 0>>}
<1>1. PICK r \in Exchanged("boot", waiting, BootAnswer(u)) :
        /\ late' = r.late
        /\ IF r.got.op = "boot"
           THEN tainted' = IF OnDisk(u, 0, r.got.data[1]) THEN tainted ELSE tainted \cup {<<u, 0>>}
           ELSE tainted' = tainted
  BY DEF ReadBoot
<1>2. LateAnswer(r.late) /\ (r.got \in {BootAnswer(u), NoAnswer} \/ "late" \in Disturbances)
  BY LateExchanged
<1>3. CASE "late" \in Disturbances
  BY <1>1, <1>2, <1>3
<1>4. CASE r.got = BootAnswer(u)
  BY <1>1, <1>2, <1>4, BootOnDisk
<1>5. CASE r.got = NoAnswer
  BY <1>1, <1>2, <1>5 DEF NoAnswer
<1> QED
  BY <1>2, <1>3, <1>4, <1>5

(* The same of all of Build_bpb_cmd. *)
LEMMA BuildBpbDoubts ==
    ASSUME Typed, LateOnly, NEW u \in Units, BuildBpb(u)
    PROVE  /\ LateAnswer(late') /\ status' # "none"
           /\ \/ tainted' = tainted
              \/ "late" \in Disturbances /\ tainted' = tainted \cup {<<u, 0>>}
<1>1. PICK o \in InfoOutcomes(u) :
        \/ status' = "OP_COMPLETE" /\ late' = o.late /\ UNCHANGED tainted
        \/ ReadBoot(u, o.late)
  BY DEF BuildBpb, BpbFrom
<1>2. LateAnswer(o.late)
  BY LateInfo
<1>3. ReadBoot(u, o.late) => status' \in {"OP_COMPLETE", "READ_FAULT"}
  BY DEF ReadBoot, BpbFrom
<1> QED
  BY <1>1, <1>2, <1>3, ReadBootDoubts

(* LateOnly is inductive: only a failed exchange, or one that took another's *)
(* answer, leaves one behind.                                              *)
LEMMA StepLate == ASSUME Typed, LateOnly, [Next]_vars PROVE LateOnly'
<1>1. CASE LateAnswer(late')
  BY <1>1 DEF LateOnly, LateAnswer
<1>2. CASE late' = late \/ late' = NoAnswer \/ "late" \in Disturbances
  BY <1>2 DEF LateOnly, NoAnswer
<1>3. CASE Ask
  <2>1. ASSUME NEW u \in Units, MediaCheck(u) PROVE LateOnly'
    BY <1>1, <1>2, <2>1, LateInfo DEF MediaCheck
  <2>2. ASSUME NEW u \in Units, BuildBpb(u) PROVE LateOnly'
    BY <1>1, <2>2, BuildBpbDoubts
  <2>3. ASSUME NEW u, NEW l, NEW data, StartWrite(u, l, data) PROVE LateOnly'
    BY <1>1, <2>3, LateInfo DEF StartWrite
  <2>4. ASSUME NEW u, NEW l, NEW n, StartRead(u, l, n) PROVE LateOnly'
    BY <1>2, <2>4 DEF StartRead, device
  <2>5. ASSUME NEW u, NEW s, SetUnitMap(u, s) PROVE LateOnly'
    BY <1>2, <2>5 DEF SetUnitMap, device
  <2> QED
    BY <1>3, <2>1, <2>2, <2>3, <2>4, <2>5 DEF Ask
<1>4. CASE Step
  <2>1. CASE Complete \/ PastEnd \/ ReadCached
    BY <1>2, <2>1 DEF Complete, PastEnd, ReadCached, device
  <2>2. CASE ReadFetch \/ WriteBatch
    BY <1>2, <2>2 DEF ReadFetch, WriteBatch
  <2>3. CASE ReadLate \/ WriteLate
    BY <1>2, <2>3 DEF ReadLate, WriteLate, LateOnly
  <2>4. CASE ReadDamaged \/ ReadRetry \/ ReadFail
    BY <1>2, <2>4 DEF ReadDamaged, ReadRetry, ReadFail, ReadUnanswered, Unanswered
  <2>5. CASE WriteFail
    BY <1>2, <2>5 DEF WriteFail
  <2> QED
    BY <1>4, <2>1, <2>2, <2>3, <2>4, <2>5 DEF Step
<1>5. ASSUME NEW s \in Slots, ChangeMedium(s) PROVE LateOnly'
  BY <1>2, <1>5 DEF ChangeMedium
<1>6. CASE UNCHANGED vars
  BY <1>2, <1>6 DEF vars, device
<1> QED
  BY <1>3, <1>4, <1>5, <1>6 DEF Next

(* Sectors from a late answer: all that the cache takes of them is in doubt. *)
LEMMA ReadLateImplements == ASSUME Typed, Typed', TransferIsTrue', LateOnly, ReadLate PROVE Device!Read
<1>1. Reading /\ sector \in Nat /\ fetch \in Nat /\ "late" \in Disturbances
  BY BatchNumbers DEF Typed, ReadLate, Missing, Reading, LateOnly
<1>2. PICK data \in Seq(Data) : data = late.data
  BY DEF Typed, TypeOK, Answers
<1>3. Len(data) = fetch /\ Fetched(data) /\ tainted' = tainted \cup ({req.unit} \X (sector..(sector + fetch - 1)))
  BY <1>2 DEF ReadLate
<1>4. \A p \in {req.unit} \X (sector..(sector + fetch - 1)) : p[1] = req.unit /\ p[2] >= sector
  BY <1>1
<1>5. /\ tainted \subseteq tainted'
      /\ \A p \in tainted' \ tainted : "late" \in Disturbances /\ p[1] = req.unit /\ p[2] >= sector
  BY <1>1, <1>3, <1>4
<1> QED
  BY <1>1, <1>3, <1>5, FetchedMore, ReadMapped

(* A batch written. *)
LEMMA WriteBatchImplements == ASSUME Typed, WriteBatch PROVE Device!Write
<1>1. Writing /\ Acknowledged /\ batch \in Nat /\ batch \in 0..batch
  BY BatchNumbers DEF Typed, WriteBatch, Writing
<1>2. /\ content' = Written(slot, sector, output, batch) /\ sector + batch <= Size[slot]
      /\ tainted' = tainted \cup Aliases(req.unit, slot, sector, batch) \cup Duplicates(req.unit, sector, batch)
  BY DEF WriteBatch, Writable, Readable
<1>3. Duplicates(req.unit, sector, batch) \subseteq Device!Own(batch)
  BY AheadIs DEF Duplicates
<1>4. Device!Put(batch)
  BY <1>1, <1>2, PutMapped
<1>5. Device!DoubtOnly(Device!Seen(batch) \cup Device!Own(batch))
  BY <1>2, <1>3, AliasesSeen DEF Device!DoubtOnly
<1>6. ~(batch < batch)
  BY <1>1
<1> QED
  BY <1>1, <1>4, <1>5, <1>6, WriteMapped

(* A batch taken for written. *)
LEMMA WriteLateImplements == ASSUME Typed, LateOnly, WriteLate PROVE Device!Write
<1>1. Writing /\ Acknowledged /\ "late" \in Disturbances
  BY DEF WriteLate, LateOnly
<1>2. PICK k \in 0..batch :
        /\ k > 0 => Writable(slot, sector, batch)
        /\ content' = Written(slot, sector, output, k)
        /\ tainted' = tainted \cup Aliases(req.unit, slot, sector, k)
                              \cup ({req.unit} \X (sector..(sector + batch - 1)))
  BY DEF WriteLate
<1>3. Device!Put(k)
  BY <1>1, <1>2, PutMapped DEF Writable, Readable
<1>4. Device!Own(batch) = {req.unit} \X (sector..(sector + batch - 1))
  BY AheadIs
<1>5. Device!DoubtOnly(Device!Seen(k) \cup Device!Own(batch)) /\ Device!Own(batch) \subseteq tainted'
  BY <1>2, <1>4, AliasesSeen DEF Device!DoubtOnly
<1> QED
  BY <1>1, <1>3, <1>5, WriteMapped

(* A batch that failed, part of which may be written. *)
LEMMA WriteFailImplements == ASSUME Typed, WriteFail PROVE Device!WriteFails
<1>1. Writing /\ Finish /\ UNCHANGED unitSlot
  BY DEF WriteFail, driver
<1>2. /\ batch \in Nat /\ done \in Nat /\ done + batch <= req.count /\ req.count \in Nat
      /\ sector \in Nat /\ slot \in Slots
  BY <1>1, BatchNumbers DEF Typed, TypeOK, Writing
<1>3. PICK k \in 0..batch :
        /\ k > 0 => Disturbances \cap {"unacked", "late"} # {} /\ Writable(slot, sector, batch)
        /\ content' = Written(slot, sector, output, k)
        /\ tainted' = tainted \cup Aliases(req.unit, slot, sector, k) \cup Cached(req.unit, sector, k)
  BY DEF WriteFail
<1>4. Device!DoubtOnly(Device!Seen(k))
  <2>1. Cached(req.unit, sector, k) \subseteq Device!Own(k)
    BY AheadIs DEF Cached
  <2> QED
    BY <1>3, <2>1, AliasesSeen, OwnSeen DEF Device!DoubtOnly
<1>5. k > 0 => sector + batch <= Size[slot]
  BY <1>3 DEF Writable, Readable
<1>6. Device!Put(k)
  BY <1>1, <1>3, <1>5, PutMapped
<1>7. k \in 0..(req.count - done)
  BY <1>2
<1>8. Len(SubSeq(buf, 1, done)) = done
  BY MovedIs DEF Moved
<1>9. Device!Return
  BY <1>1, ReturnMapped
<1>10. pc = "write"
  BY <1>1 DEF Writing
<1> QED
  BY <1>1, <1>3, <1>4, <1>6, <1>7, <1>8, <1>9, <1>10 DEF Device!WriteFails

(* Requests that end without an exchange, and reads that fail.             *)
LEMMA EndImplements == ASSUME Typed, Complete \/ PastEnd \/ ReadFail PROVE Device!Answer
<1>1. /\ pc # "idle" /\ UNCHANGED <<content, unitSlot, tainted>>
      /\ Finish \/ (remaining > 0 /\ Return("NOT_FOUND"))
  BY DEF Complete, PastEnd, ReadFail, Missing, Reading, device, driver, history
<1> QED
  BY <1>1, ReturnMapped DEF Device!Answer

(* A disk that changes. *)
LEMMA ChangeMediumImplements == ASSUME Typed, NEW s \in Slots, ChangeMedium(s) PROVE Device!Alter(s)
<1>1. /\ "medium" \in Disturbances /\ UNCHANGED <<unitSlot, pc, req, done, buf, status>>
      /\ tainted' = IF content' = content THEN tainted ELSE tainted \cup SectorsOf(s)
  BY DEF ChangeMedium, driver, request
<1>2. content'[s] \in [0..(Size[s] - 1) -> Data] /\ \A t \in Slots \ {s} : content'[t] = content[t]
  BY DEF ChangeMedium, Disks, Typed, TypeOK, Contents
<1> QED
  BY <1>1, <1>2 DEF Device!Alter, SectorsOf

(* A unit that is mapped to another slot. *)
LEMMA SetUnitMapImplements == ASSUME NEW u \in Units, NEW s \in Slots, SetUnitMap(u, s) PROVE Device!Remap(u, s)
  BY DEF SetUnitMap, Idle, device, Device!Remap

(* Requests. *)
LEMMA AskImplements == ASSUME Typed, Typed', LateOnly, Ask PROVE Device!Next
<1>1. PICK u \in Units :
          \/ MediaCheck(u) \/ BuildBpb(u) \/ \E s \in Slots : SetUnitMap(u, s)
          \/ \E l \in 0..MaxLba, n \in 0..MaxCount : StartRead(u, l, n)
          \/ \E l \in 0..MaxLba, n \in 0..MaxCount : \E data \in [1..n -> Data] : StartWrite(u, l, data)
  BY DEF Ask
<1>2. CASE MediaCheck(u)
  BY <1>2, ControlMapped DEF MediaCheck, Device!Next
<1>3. CASE BuildBpb(u)
  <2>1. Idle /\ UNCHANGED <<content, unitSlot>>
    BY <1>3 DEF BuildBpb
  <2> QED
    BY <1>3, <2>1, BuildBpbDoubts, ControlMapped DEF Device!Next
<1>4. ASSUME NEW s \in Slots, SetUnitMap(u, s) PROVE Device!Next
  BY <1>4, SetUnitMapImplements DEF Device!Next
<1>5. ASSUME NEW l, NEW n, StartRead(u, l, n) PROVE Device!Next
  BY <1>5, StartMapped DEF StartRead, device, driver, history, Device!Next
<1>6. ASSUME NEW l, NEW n, NEW data \in [1..n -> Data], StartWrite(u, l, data) PROVE Device!Next
  <2>1. UNCHANGED <<content, unitSlot, tainted>> /\ pc = "idle"
    BY <1>6 DEF StartWrite, history
  <2>2. CASE Start("write", u, l, Len(data))
    BY <2>1, <2>2, StartMapped DEF Device!Next
  <2>3. CASE status' # "none" /\ UNCHANGED <<pc, req, done, attempt, buf>>
    BY <2>1, <2>3, ControlMapped DEF Idle, Device!Next
  <2> QED
    BY <1>6, <2>2, <2>3 DEF StartWrite
<1> QED
  BY <1>1, <1>2, <1>3, <1>4, <1>5, <1>6

(* Every step of the driver is a step of the device it promises, or none.  *)
LEMMA StepImplements ==
    ASSUME Typed, Typed', TransferIsTrue', LateOnly, [Next]_vars
    PROVE  [Device!Next]_(Device!blockVars)
<1>1. ASSUME UNCHANGED <<content, unitSlot, tainted, pc, req, done, buf, status>>
      PROVE  UNCHANGED Device!blockVars
  BY <1>1 DEF Device!blockVars
<1>2. CASE UNCHANGED vars
  BY <1>1, <1>2 DEF vars, device, driver, request, history
<1>3. CASE ReadDamaged \/ ReadRetry
  BY <1>1, <1>3 DEF ReadDamaged, ReadRetry, driver, history
<1>4. CASE Step
  BY <1>3, <1>4, ReadCachedImplements, ReadFetchImplements, ReadLateImplements, WriteBatchImplements,
     WriteLateImplements, WriteFailImplements, EndImplements DEF Step, Device!Next
<1>5. CASE Ask
  BY <1>5, AskImplements
<1>6. ASSUME NEW s \in Slots, ChangeMedium(s) PROVE Device!Next
  BY <1>6, ChangeMediumImplements DEF Device!Next
<1> QED
  BY <1>2, <1>4, <1>5, <1>6 DEF Next

(* BlockSpec: what Input_cmd, Output_cmd, the media and BPB commands and    *)
(* SET_UNIT_MAP do, with their cache, batches, read-ahead, retries and     *)
(* downshifts, is what the abstract disks behind units allow.              *)
THEOREM ImplementsBlockDevice == Spec => BlockSpec
<1>1. Init => Device!Init /\ LateOnly
  <2> SUFFICES ASSUME Init PROVE Device!Init /\ LateOnly
    OBVIOUS
  <2>1. SubSeq(buf, 1, done) = << >> /\ pc = "idle" /\ status = "none" /\ tainted = {}
    BY DEF Init
  <2>2. unitSlot \in [Units -> Slots] /\ \A s \in Slots : content[s] \in [0..(Size[s] - 1) -> Data]
    BY ContentOf DEF Init
  <2> QED
    BY <2>1, <2>2 DEF Init, NoAnswer, LateOnly, Device!Init
<1>2. Typed /\ Typed' /\ Truth' /\ LateOnly /\ [Next]_vars => [Device!Next]_(Device!blockVars)
  BY StepImplements DEF Truth
<1> QED
  BY <1>1, <1>2, InitTyped, StepTyped, InitTrue, StepTrue, StepLate, PTL DEF Spec, BlockSpec, Device!Spec
=============================================================================
