-------------------------- MODULE ApplicationsProofs --------------------------
(***************************************************************************)
(* Proofs about the parts of an application: what the static files, the    *)
(* logins and the handlers of module Applications keep, for every value of *)
(* the constants and however their steps interleave with others'.          *)
(***************************************************************************)
EXTENDS Applications, TLAPS

\* The bounds are numbers, and a chunk is not empty.
LEMMA Numbers == MaxSize \in Nat /\ MaxVersion \in Nat /\ ChunkSize \in Nat \ {0}
BY ApplicationsAssumption

-----------------------------------------------------------------------------
(* Static files.                                                           *)

Disk == [size : Nat, version : Nat]

FileTypes ==
  /\ file \in Disk /\ stat \in Disk
  /\ at \in {"new", "stat", "hash", "hashing", "decide", "open", "read", "done"}
  /\ get.range \in Static!Ranges
  /\ seen \in SUBSET Nat /\ file.version \in seen

\* What os.stat saw is a version the file has had during the request; every
\* version was written no earlier than those before it.
VersionsOK ==
  /\ \A w \in seen : w <= file.version
  /\ stat.version <= file.version
  /\ at \notin {"new", "stat"} => stat.version \in seen
  /\ file.version <= MaxVersion /\ dates \in [0 .. MaxVersion -> Nat]
  /\ \A v, w \in 0 .. file.version : v <= w => dates[v] <= dates[w]

\* A content has bytes of versions that the file has had, in debug mode during
\* this request.
Made(content) == \A b \in content :
  /\ b[2] \in Int /\ b[2] <= file.version
  /\ debug /\ content # Static!NoHash => b[2] \in seen

HashesOK ==
  /\ Made(etag) /\ \A h \in hashes : Made(h)
  /\ at = "hashing" => \A b \in etag : b[2] \in Nat

\* What is sent, and so what a client keeps, is no older than the content of the
\* Etag and the date it is sent with.
SourcesOK ==
  /\ at \notin {"read", "done"} => sources = {}
  /\ \A v \in sources : /\ v \in Nat /\ v <= file.version /\ dates[stat.version] <= dates[v]
                        /\ \A b \in etag : b[2] <= v

CopyOK ==
  /\ copy.modified \in Int
  /\ \A v \in copy.versions : /\ v \in Nat /\ v <= file.version /\ copy.modified <= dates[v]
                              /\ \A b \in copy.tag : b[2] <= v
  /\ at # "new" => /\ \A v \in copy.versions, w \in seen : v <= w
                   /\ "etag" \in get.by => copy.tag # Static!NoHash

\* A response is not 304 before the handler has decided, nor after it went on.
UndecidedIsNot304 == at # "done" => status # 304

CacheInv == /\ FileTypes /\ VersionsOK /\ HashesOK /\ SourcesOK /\ CopyOK
            /\ UndecidedIsNot304 /\ NotModifiedIsTrue

\* Somebody writes the file anew: the version is one that nobody knows.
LEMMA RewriteTypes ==
  ASSUME FileTypes, VersionsOK, Static!Rewrite
  PROVE  /\ FileTypes' /\ VersionsOK'
         /\ file'.version = file.version + 1 /\ seen' = seen \cup {file.version + 1}
         /\ \A v \in 0 .. file.version : dates'[v] = dates[v]
<1>1. PICK n \in 0 .. MaxSize : file' = [size |-> n, version |-> file.version + 1]
  BY DEF Static!Rewrite
<1>2. n \in Nat /\ file.version \in Nat /\ stat.version \in Nat
  BY ApplicationsAssumption DEF FileTypes, Disk
<1>3. file' \in Disk /\ file'.version = file.version + 1
  BY <1>1, <1>2 DEF Disk
<1>4. seen' = seen \cup {file.version + 1}
  BY DEF Static!Rewrite
<1>5. UNCHANGED <<at, stat, get>>
  BY DEF Static!Rewrite
<1>6. FileTypes'
  <2>1. seen' \in SUBSET Nat /\ file'.version \in seen'
    <3>1. file.version + 1 \in Nat /\ \A w \in seen : w \in Nat
      BY <1>2 DEF FileTypes
    <3>2. \A w \in seen' : w \in Nat
      BY <1>4, <3>1
    <3> QED
      BY <1>3, <1>4, <3>2
  <2>2. /\ stat \in Disk /\ get.range \in Static!Ranges
        /\ at \in {"new", "stat", "hash", "hashing", "decide", "open", "read", "done"}
    BY DEF FileTypes
  <2> QED
    BY <1>3, <1>5, <2>1, <2>2 DEF FileTypes
<1>7. PICK d \in {dates[file.version], dates[file.version] + 1} :
        dates' = [dates EXCEPT ![file.version + 1] = d]
  BY DEF Static!Rewrite
<1>8. /\ dates \in [0 .. MaxVersion -> Nat] /\ file.version < MaxVersion /\ MaxVersion \in Nat
      /\ \A v, w \in 0 .. file.version : v <= w => dates[v] <= dates[w]
  BY Numbers DEF VersionsOK, Static!Rewrite
<1>9. dates[file.version] \in Nat /\ d \in Nat /\ d >= dates[file.version]
  BY <1>2, <1>7, <1>8
<1>10. /\ dates' \in [0 .. MaxVersion -> Nat] /\ dates'[file.version + 1] = d
       /\ \A v \in 0 .. file.version : dates'[v] = dates[v]
  BY <1>2, <1>7, <1>8, <1>9
<1>11. ASSUME NEW v \in 0 .. file.version + 1, NEW w \in 0 .. file.version + 1, v <= w
       PROVE  dates'[v] <= dates'[w]
  <2>1. CASE w \in 0 .. file.version
    <3>1. v \in 0 .. file.version
      BY <1>2, <1>11, <2>1
    <3>2. dates[v] <= dates[w]
      BY <1>8, <1>11, <2>1, <3>1
    <3> QED
      BY <1>10, <2>1, <3>1, <3>2
  <2>2. CASE w = file.version + 1 /\ v \in 0 .. file.version
    <3>1. dates[v] <= dates[file.version] /\ dates[v] \in Nat
      <4>1. /\ file.version \in 0 .. file.version /\ v <= file.version
            /\ v \in 0 .. MaxVersion
        BY <1>2, <1>8, <2>2
      <4>2. dates[v] <= dates[file.version]
        BY <1>8, <2>2, <4>1
      <4> QED
        BY <1>8, <4>1, <4>2
    <3> QED
      BY <1>9, <1>10, <2>2, <3>1
  <2>3. CASE w = file.version + 1 /\ v = file.version + 1
    BY <1>9, <1>10, <2>3
  <2> QED
    BY <1>2, <1>11, <2>1, <2>2, <2>3
<1>12. VersionsOK'
  BY <1>2, <1>3, <1>4, <1>5, <1>8, <1>10, <1>11 DEF FileTypes, VersionsOK
<1> QED
  BY <1>3, <1>4, <1>6, <1>10, <1>12

\* A rewrite on the disk makes a version nobody was told of.
LEMMA RewriteCache ==
  ASSUME CacheInv, Static!Rewrite
  PROVE  CacheInv'
<1>1. /\ FileTypes' /\ VersionsOK'
      /\ file'.version = file.version + 1 /\ seen' = seen \cup {file.version + 1}
      /\ \A v \in 0 .. file.version : dates'[v] = dates[v]
  BY RewriteTypes DEF CacheInv
<1>2. UNCHANGED <<hashes, debug, copy, get, at, stat, etag, sources, status>>
  BY DEF Static!Rewrite
<1>3. /\ file.version \in Nat /\ stat.version \in Nat /\ stat.version <= file.version
      /\ seen \in SUBSET Nat
  BY DEF CacheInv, FileTypes, VersionsOK, Disk
<1>4. HashesOK'
  <2>1. ASSUME NEW content, Made(content) PROVE Made(content)'
    BY <1>1, <1>2, <1>3, <2>1 DEF Made
  <2> QED
    BY <1>2, <2>1 DEF CacheInv, HashesOK
<1>5. dates'[stat.version] = dates[stat.version]
  BY <1>1, <1>3
<1>6. SourcesOK'
  BY <1>1, <1>2, <1>3, <1>5 DEF CacheInv, SourcesOK
<1>7. CopyOK'
  <2>1. \A v \in copy.versions : v \in 0 .. file.version
    BY <1>3 DEF CacheInv, CopyOK
  <2>2. \A v \in copy.versions : v \in Nat /\ v <= file.version /\ copy.modified <= dates[v]
    BY DEF CacheInv, CopyOK
  <2>3. \A v \in copy.versions :
           v \in Nat /\ v <= file'.version /\ copy.modified <= dates'[v]
    BY <1>1, <1>3, <2>1, <2>2
  <2>4. at # "new" => \A v \in copy.versions, w \in seen' : v <= w
    BY <1>1, <1>3, <2>2 DEF CacheInv, CopyOK
  <2> QED
    BY <1>2, <2>3, <2>4 DEF CacheInv, CopyOK
<1>8. NotModifiedIsTrue'
  <2>1. \A v \in copy.versions : v \in 0 .. file.version /\ dates'[v] = dates[v]
    BY <1>1, <1>3 DEF CacheInv, CopyOK
  <2> QED
    BY <1>1, <1>2, <1>5, <2>1 DEF CacheInv, NotModifiedIsTrue, Static!NotModifiedIsTrue
<1> QED
  BY <1>1, <1>2, <1>4, <1>6, <1>7, <1>8 DEF CacheInv, UndecidedIsNot304

\* A client keeps what it was sent with the Etag and the date, or what it had.
LEMMA KeepCopy ==
  ASSUME CacheInv, Static!Keep
  PROVE  /\ copy'.modified \in Int
         /\ \A v \in copy'.versions :
              /\ v \in Nat /\ v <= file.version /\ copy'.modified <= dates[v]
              /\ \A b \in copy'.tag : b[2] <= v
<1>1. CASE UNCHANGED copy
  BY <1>1 DEF CacheInv, CopyOK
<1>2. CASE copy' = [modified |-> dates[stat.version], tag |-> etag, versions |-> sources]
  <2>1. stat.version \in 0 .. MaxVersion
    BY Numbers DEF CacheInv, FileTypes, VersionsOK, Disk
  <2>2. dates[stat.version] \in Nat
    BY <2>1 DEF CacheInv, VersionsOK
  <2> QED
    BY <1>2, <2>2 DEF CacheInv, SourcesOK
<1> QED
  BY <1>1, <1>2 DEF Static!Keep

\* A request begins with what the client has of an earlier version.
LEMMA GetCache ==
  ASSUME CacheInv, Static!Get
  PROVE  CacheInv'
<1>1. PICK by \in SUBSET {"etag", "date"} :
        /\ "etag" \in by => copy'.tag # Static!NoHash
        /\ get' = [range |-> Static!NoRange, by |-> by]
  BY DEF Static!Get
<1>2. /\ at' = "stat" /\ seen' = {file.version} /\ status' = 200 /\ sources' = {}
      /\ UNCHANGED <<file, dates, debug>> /\ stat' = [size |-> 0, version |-> 0]
      /\ etag' = Static!NoHash
      /\ hashes' = IF debug THEN {} ELSE hashes
  BY DEF Static!Get, Static!StaticHashes
<1>3. file.version \in Nat
  BY DEF CacheInv, FileTypes, Disk
<1>4. FileTypes'
  <2>1. stat' \in Disk
    BY <1>2 DEF Disk
  <2>2. get'.range \in Static!Ranges
    BY <1>1 DEF Static!Ranges
  <2> QED
    BY <1>2, <1>3, <2>1, <2>2 DEF CacheInv, FileTypes
<1>5. VersionsOK'
  BY <1>2, <1>3 DEF CacheInv, VersionsOK
<1>6. HashesOK'
  <2>1. Made(Static!NoHash)'
    BY <1>2, <1>3 DEF Made, Static!NoHash
  <2>2. ~debug => \A h \in hashes : Made(h)'
    BY <1>2 DEF CacheInv, HashesOK, Made
  <2> QED
    BY <1>2, <2>1, <2>2 DEF HashesOK
<1>7. SourcesOK'
  BY <1>2 DEF SourcesOK
<1>8. CopyOK'
  <2>1. /\ copy'.modified \in Int
        /\ \A v \in copy'.versions :
             /\ v \in Nat /\ v <= file.version /\ copy'.modified <= dates[v]
             /\ \A b \in copy'.tag : b[2] <= v
    BY KeepCopy DEF Static!Get
  <2> QED
    BY <1>1, <1>2, <2>1 DEF CopyOK
<1> QED
  BY <1>2, <1>4, <1>5, <1>6, <1>7, <1>8 DEF CacheInv, UndecidedIsNot304, NotModifiedIsTrue,
     Static!NotModifiedIsTrue

\* A step of the handler that only moves on.
LEMMA MovesOn ==
  ASSUME CacheInv, UNCHANGED <<file, dates, hashes, debug, copy, stat, etag, seen>>,
         get'.range \in Static!Ranges, get'.by = get.by,
         at \notin {"new", "stat"}, at' \in {"open", "read", "done"}, status' # 304,
         at' = "open" => at = "decide",
         sources' = sources \/ (at' = "read" /\ sources' = sources \cup {file.version})
  PROVE  CacheInv'
<1>1. FileTypes'
  BY DEF CacheInv, FileTypes
<1>2. VersionsOK'
  BY DEF CacheInv, VersionsOK
<1>3. HashesOK'
  BY DEF CacheInv, HashesOK, Made
<1>4. SourcesOK'
  <2>1. /\ file.version \in 0 .. file.version /\ stat.version \in 0 .. file.version
        /\ stat.version <= file.version
    BY DEF CacheInv, FileTypes, VersionsOK, Disk
  <2>2. dates[stat.version] <= dates[file.version]
    BY <2>1 DEF CacheInv, VersionsOK
  <2>3. \A b \in etag : b[2] <= file.version
    BY DEF CacheInv, HashesOK, Made
  <2>4. \A v \in sources' : /\ v \in Nat /\ v <= file.version
                            /\ dates[stat.version] <= dates[v]
                            /\ \A b \in etag : b[2] <= v
    BY <2>1, <2>2, <2>3 DEF CacheInv, SourcesOK
  <2>5. at' \notin {"read", "done"} => sources' = {}
    BY DEF CacheInv, SourcesOK
  <2> QED
    BY <2>4, <2>5 DEF SourcesOK
<1>5. CopyOK'
  BY DEF CacheInv, CopyOK
<1> QED
  BY <1>1, <1>2, <1>3, <1>4, <1>5 DEF CacheInv, UndecidedIsNot304, NotModifiedIsTrue,
     Static!NotModifiedIsTrue

\* should_return_304 holds only for a copy that is not older.
LEMMA NotModifiedIsSeen ==
  ASSUME CacheInv, at = "decide", Static!NotModified
  PROVE  \/ /\ "etag" \in get.by
            /\ \A v \in copy.versions, b \in etag : b[2] <= v
            /\ debug /\ etag # {} => copy.versions \subseteq seen
         \/ "date" \in get.by /\ \A v \in copy.versions : dates[v] >= dates[stat.version]
<1>1. CASE "etag" \in get.by /\ copy.tag = etag
  <2>1. etag # Static!NoHash
    BY <1>1 DEF CacheInv, CopyOK
  <2>2. \A v \in copy.versions, b \in etag : b[2] <= v
    BY <1>1 DEF CacheInv, CopyOK
  <2>3. ASSUME debug, etag # {} PROVE copy.versions \subseteq seen
    <3>1. PICK b \in etag : TRUE
      BY <2>3
    <3>2. b[2] \in Int /\ b[2] \in seen
      BY <2>1, <2>3 DEF CacheInv, HashesOK, Made
    <3>3. ASSUME NEW v \in copy.versions PROVE v \in seen
      <4>1. v \in Nat /\ v <= b[2] /\ b[2] <= v
        BY <2>2, <3>2 DEF CacheInv, CopyOK
      <4> QED
        BY <3>2, <4>1
    <3> QED
      BY <3>3
  <2> QED
    BY <1>1, <2>2, <2>3
<1>2. CASE "date" \in get.by /\ copy.modified >= dates[stat.version]
  <2>1. stat.version \in 0 .. file.version /\ file.version <= MaxVersion
    BY DEF CacheInv, FileTypes, VersionsOK, Disk
  <2>2. dates[stat.version] \in Nat
    <3>1. stat.version \in 0 .. MaxVersion
      BY <2>1, Numbers DEF CacheInv, FileTypes, Disk
    <3> QED
      BY <3>1 DEF CacheInv, VersionsOK
  <2>3. ASSUME NEW v \in copy.versions PROVE dates[v] >= dates[stat.version]
    <3>1. v \in 0 .. MaxVersion /\ copy.modified <= dates[v] /\ copy.modified \in Int
      BY <2>1, Numbers DEF CacheInv, CopyOK, FileTypes, Disk
    <3>2. dates[v] \in Nat
      BY <3>1 DEF CacheInv, VersionsOK
    <3> QED
      BY <1>2, <2>2, <3>1, <3>2
  <2> QED
    BY <1>2, <2>3
<1> QED
  BY <1>1, <1>2 DEF Static!NotModified

\* A step of set_headers: an Etag that is made, or was made before.
LEMMA HashCache ==
  ASSUME CacheInv, UNCHANGED <<file, dates, debug, copy, get, stat, sources, status, seen>>,
         at \in {"hash", "hashing"}, at' \in {"hashing", "decide"},
         Made(etag'), hashes' = hashes \/ hashes' = {etag'},
         at' = "hashing" => \A b \in etag' : b[2] \in Nat
  PROVE  CacheInv'
<1>1. FileTypes'
  BY DEF CacheInv, FileTypes
<1>2. VersionsOK'
  BY DEF CacheInv, VersionsOK
<1>3. HashesOK'
  <2>1. \A content : Made(content) => Made(content)'
    BY DEF Made
  <2>2. \A h \in hashes' : Made(h)
    BY DEF CacheInv, HashesOK
  <2> QED
    BY <2>1, <2>2 DEF HashesOK, Made
<1>4. SourcesOK'
  BY DEF CacheInv, SourcesOK
<1>5. CopyOK'
  BY DEF CacheInv, CopyOK
<1> QED
  BY <1>1, <1>2, <1>3, <1>4, <1>5 DEF CacheInv, UndecidedIsNot304, NotModifiedIsTrue,
     Static!NotModifiedIsTrue

\* Each of these steps: the hash from the cache, a chunk more, the end, a failure.
LEMMA HashStep ==
  ASSUME CacheInv, Static!Hash \/ Static!HashChunk \/ Static!HashFails
  PROVE  CacheInv'
<1>1. file.version \in Nat /\ file.version \in seen
  BY DEF CacheInv, FileTypes, Disk
<1>2. UNCHANGED <<file, dates, debug, copy, get, stat, sources, status, seen>>
  BY DEF Static!Hash, Static!HashChunk, Static!HashFails
<1>3. at \in {"hash", "hashing"} /\ at' \in {"hashing", "decide"}
  BY DEF Static!Hash, Static!HashChunk, Static!HashFails
<1>4. CASE Static!Hash
  <2>1. hashes' = hashes /\ (etag' = {} \/ etag' \in hashes)
    BY <1>4 DEF Static!Hash
  <2>2. Made(etag')
    BY <2>1 DEF CacheInv, HashesOK, Made
  <2>3. at' = "hashing" => etag' = {}
    BY <1>4 DEF Static!Hash
  <2> QED
    BY <1>2, <1>3, <2>1, <2>2, <2>3, HashCache
<1>5. CASE Static!HashChunk
  <2>1. at = "hashing" /\ (hashes' = hashes \/ hashes' = {etag'})
    BY <1>5 DEF Static!HashChunk
  <2>2. PICK n : etag' = etag \cup Static!Bytes(pos, n, file.version) \/ etag' = etag
    BY <1>5 DEF Static!HashChunk
  <2>3. \A b \in Static!Bytes(pos, n, file.version) : b[2] = file.version
    BY DEF Static!Bytes
  <2>4. \A b \in etag : b[2] \in Nat
    BY <2>1 DEF CacheInv, HashesOK
  <2>5. etag # Static!NoHash
    <3>1. <<-1, -1>> \in Static!NoHash /\ <<-1, -1>>[2] = -1
      BY DEF Static!NoHash
    <3> QED
      BY <2>4, <3>1
  <2>6. \A b \in etag' : b[2] \in Nat
    BY <1>1, <2>2, <2>3, <2>4
  <2>7. Made(etag')
    BY <1>1, <2>2, <2>3, <2>5 DEF CacheInv, HashesOK, Made
  <2> QED
    BY <1>2, <1>3, <2>1, <2>6, <2>7, HashCache
<1>6. CASE Static!HashFails
  <2>1. etag' = Static!NoHash /\ hashes' = {etag'} /\ at' = "decide"
    BY <1>6 DEF Static!HashFails
  <2>2. Made(Static!NoHash)
    BY <1>1 DEF Made, Static!NoHash
  <2> QED
    BY <1>2, <1>3, <2>1, <2>2, HashCache
<1> QED
  BY <1>4, <1>5, <1>6

\* Every step of the file's handler, and of whoever writes the file.
LEMMA CacheStep ==
  ASSUME CacheInv, Static!Next
  PROVE  CacheInv'
<1>1. CASE Static!Rewrite
  BY <1>1, RewriteCache
<1>2. CASE Static!Get
  BY <1>2, GetCache
<1>3. CASE Static!Stat
  <2>1. /\ at = "stat" /\ at' = "hash" /\ stat' = file
        /\ UNCHANGED <<file, dates, hashes, debug, copy, get, etag, sources, status, seen>>
    BY <1>3 DEF Static!Stat
  <2>2. file.version <= file.version /\ sources = {}
    BY <2>1 DEF CacheInv, SourcesOK, FileTypes, Disk
  <2>3. FileTypes'
    BY <2>1 DEF CacheInv, FileTypes
  <2>4. VersionsOK'
    BY <2>1, <2>2 DEF CacheInv, VersionsOK, FileTypes
  <2>5. HashesOK'
    BY <2>1 DEF CacheInv, HashesOK, Made
  <2>6. SourcesOK' /\ CopyOK'
    BY <2>1, <2>2 DEF CacheInv, SourcesOK, CopyOK
  <2> QED
    BY <2>1, <2>3, <2>4, <2>5, <2>6 DEF CacheInv, UndecidedIsNot304, NotModifiedIsTrue,
       Static!NotModifiedIsTrue
<1>4. CASE Static!Hash \/ Static!HashChunk \/ Static!HashFails
  BY <1>4, HashStep
<1>5. CASE Static!Decide
  <2>1. /\ at = "decide" /\ at' \in {"open", "done"}
        /\ UNCHANGED <<file, dates, hashes, debug, copy, stat, etag, sources, seen>>
    BY <1>5 DEF Static!Decide, Static!Slice, Static!Answer
  <2>2. get'.range \in Static!Ranges /\ get'.by = get.by
    <3>1. CASE UNCHANGED get
      BY <3>1 DEF CacheInv, FileTypes
    <3>2. ASSUME NEW r \in Static!Ranges, get' = [get EXCEPT !.range = r]
          PROVE  get'.range \in Static!Ranges /\ get'.by = get.by
      BY <3>2 DEF CacheInv, FileTypes
    <3> QED
      BY <1>5, <3>1, <3>2 DEF Static!Decide
  <2>3. status' = 304 => Static!NotModified /\ at' = "done"
    BY <1>5 DEF Static!Decide, Static!Slice, Static!Answer
  <2>4. CASE status' # 304
    BY <2>1, <2>2, <2>4, MovesOn
  <2>5. CASE status' = 304
    <3>1. FileTypes' /\ VersionsOK'
      BY <2>1, <2>2 DEF CacheInv, FileTypes, VersionsOK
    <3>2. HashesOK'
      BY <2>1 DEF CacheInv, HashesOK, Made
    <3>3. SourcesOK' /\ CopyOK'
      BY <2>1, <2>2 DEF CacheInv, SourcesOK, CopyOK
    <3>4. NotModifiedIsTrue'
      BY <2>1, <2>2, <2>3, <2>5, NotModifiedIsSeen
         DEF NotModifiedIsTrue, Static!NotModifiedIsTrue
    <3> QED
      BY <2>3, <2>5, <3>1, <3>2, <3>3, <3>4 DEF CacheInv, UndecidedIsNot304
  <2> QED
    BY <2>4, <2>5
<1>6. CASE Static!Open
  <2>1. /\ at = "open" /\ at' \in {"read", "done"} /\ status' \in {status, 500}
        /\ UNCHANGED <<file, dates, hashes, debug, copy, get, stat, etag, sources, seen>>
    BY <1>6 DEF Static!Open
  <2> QED
    BY <2>1, MovesOn DEF CacheInv, UndecidedIsNot304, FileTypes
<1>7. CASE Static!Read
  <2>1. /\ at = "read" /\ at' \in {"read", "done"} /\ status' \in {status, 500}
        /\ UNCHANGED <<file, dates, hashes, debug, copy, get, stat, etag, seen>>
        /\ \/ sources' = sources
           \/ at' = "read" /\ sources' = sources \cup {file.version}
    BY <1>7 DEF Static!Read
  <2> QED
    BY <2>1, MovesOn DEF CacheInv, UndecidedIsNot304, FileTypes
<1> QED
  BY <1>1, <1>2, <1>3, <1>4, <1>5, <1>6, <1>7 DEF Static!Next

\* Nothing is served and nothing cached at first.
LEMMA CacheInit == Init => CacheInv
<1> SUFFICES ASSUME Init PROVE CacheInv
  OBVIOUS
<1>1. Static!Init
  BY DEF Init
<1>2. file \in Disk /\ file.version = 0
  BY <1>1, Numbers DEF Static!Init, Disk
<1>3. /\ stat = [size |-> 0, version |-> 0] /\ at = "new" /\ seen = {0} /\ hashes = {}
      /\ etag = Static!NoHash /\ sources = {} /\ status = 200
      /\ dates = [v \in 0 .. MaxVersion |-> 0]
  BY <1>1 DEF Static!Init, Static!Fresh
<1>4. get.range \in Static!Ranges
  BY <1>1 DEF Static!Init, Static!Ranges
<1>5. FileTypes
  BY <1>2, <1>3, <1>4 DEF FileTypes, Disk
<1>6. VersionsOK
  BY <1>2, <1>3, Numbers DEF VersionsOK
<1>7. HashesOK
  BY <1>2, <1>3 DEF HashesOK, Made, Static!NoHash
<1>8. CopyOK
  <2>1. /\ copy.modified = 0 /\ copy.tag = Static!Bytes(0, file.size, 0)
        /\ copy.versions = IF file.size = 0 THEN {} ELSE {0}
    BY <1>1 DEF Static!Init
  <2>2. dates[0] = 0 /\ \A b \in copy.tag : b[2] = 0
    BY <1>3, <2>1, Numbers DEF Static!Bytes
  <2> QED
    BY <1>2, <1>3, <2>1, <2>2 DEF CopyOK
<1> QED
  BY <1>3, <1>5, <1>6, <1>7, <1>8 DEF CacheInv, SourcesOK, UndecidedIsNot304,
     NotModifiedIsTrue, Static!NotModifiedIsTrue

\* The other parts of the application leave the file's handler alone.
LEMMA CacheElse ==
  ASSUME CacheInv, UNCHANGED serving PROVE CacheInv'
<1>1. FileTypes' /\ VersionsOK'
  BY DEF serving, CacheInv, FileTypes, VersionsOK
<1>2. HashesOK'
  BY DEF serving, CacheInv, HashesOK, Made
<1>3. SourcesOK' /\ CopyOK'
  BY DEF serving, CacheInv, SourcesOK, CopyOK
<1> QED
  BY <1>1, <1>2, <1>3 DEF serving, CacheInv, UndecidedIsNot304, NotModifiedIsTrue,
     Static!NotModifiedIsTrue

\* should_return_304 is right, whoever rewrites the file and when: by its Etag the
\* client's copy is never older than the content that was hashed, and in debug
\* mode it is of a version the file has had during the request; by its date it is
\* not older than the second the file os.stat saw was written in.
THEOREM NotModifiedHolds == Spec => []NotModifiedIsTrue
<1>1. CacheInv /\ [Next]_vars => CacheInv'
  BY CacheStep, CacheElse DEF Next, vars
<1>2. CacheInv => NotModifiedIsTrue
  BY DEF CacheInv
<1> QED
  BY CacheInit, <1>1, <1>2, PTL DEF Spec

\* The request's range as RFC 2616 reads it, for a file of this size: whether it
\* is one the handler does not expect, and the first and the last byte.
Suffix(r) == r.first = Static!None /\ r.last # Static!None
Strange(r, size) ==
  \/ Suffix(r) /\ r.last > size
  \/ r.first # Static!None /\ r.last # Static!None /\ r.last < r.first
First(r, size) == IF Suffix(r) THEN size - r.last ELSE Static!Most(r.first, 0)
Last(r, size) == IF Suffix(r) \/ r.last = Static!None THEN size - 1
                 ELSE Static!Least(r.last, size - 1)

\* What os.stat saw is what is on disk unless somebody has written since.
SameFile ==
  at \notin {"new", "stat"} /\ file.version = stat.version => file = stat

\* The slice is what the range asks for, or everything.
SliceOK ==
  /\ range.start \in Int /\ range.end \in Int
  /\ at \in {"stat", "hash", "hashing", "decide"} =>
       range.start = Static!None /\ range.end = Static!None
  /\ at \in {"open", "read", "done"} /\ status = 200 =>
       range.start \in {Static!None, 0} /\ range.end \in {Static!None, stat.size}
  /\ at \in {"open", "read", "done"} /\ status = 206
       /\ ~Strange(get.range, stat.size) =>
       LET first == First(get.range, stat.size)
           last  == Last(get.range, stat.size)
       IN  /\ contentRange = <<[first |-> first, last |-> last, size |-> stat.size]>>
           /\ range.start = first /\ 0 <= first /\ first <= last /\ last < stat.size
           /\ range.end = last + 1 \/ (range.end = Static!None /\ last = stat.size - 1)
  /\ at \in {"open", "read"} => status \in {200, 206}

Start == IF range.start = Static!None THEN 0 ELSE range.start

\* What was read is what comes after the start, and what remains is the rest.
ReadOK ==
  /\ body \in Nat /\ pos \in Int /\ remaining \in Int
  /\ at \notin {"read", "done"} => body = 0
  /\ at = "read" /\ (status = 206 => ~Strange(get.range, stat.size)) =>
       /\ pos = Start + body
       /\ IF range.end = Static!None THEN remaining = Static!None
          ELSE remaining = range.end - pos /\ remaining >= 0
       /\ seen = {stat.version} => pos <= stat.size

RangeInv == CacheInv /\ SameFile /\ SliceOK /\ ReadOK /\ RangesAreServed

\* None is no number that a header or a slice has.
LEMMA NoneIsLow ==
  /\ Static!None \in Int /\ Static!None < 0 /\ Static!None < -(MaxSize + 1)
  /\ Static!None # 0
BY Numbers DEF Static!None

\* What a Range header may say: numbers that are not negative, or nothing.
LEMMA RangeTypes ==
  ASSUME NEW r \in Static!Ranges
  PROVE  /\ r.unit \in BOOLEAN
         /\ r.first = Static!None \/ (r.first \in Nat /\ r.first <= MaxSize)
         /\ r.last = Static!None \/ (r.last \in Nat /\ r.last <= MaxSize + 1)
         /\ ~r.unit => r.first = Static!None /\ r.last = Static!None
         /\ r.first \in Int /\ r.last \in Int
<1>1. CASE r = Static!NoRange
  BY <1>1, NoneIsLow DEF Static!NoRange
<1>2. CASE r \in [unit : {TRUE}, first : (0 .. MaxSize) \cup {Static!None},
                  last : (0 .. MaxSize + 1) \cup {Static!None}]
  <2>1. /\ r.unit = TRUE /\ r.first \in (0 .. MaxSize) \cup {Static!None}
        /\ r.last \in (0 .. MaxSize + 1) \cup {Static!None}
    BY <1>2
  <2>2. r.unit \in BOOLEAN /\ r.unit
    BY <2>1
  <2>3. /\ r.first = Static!None \/ (r.first \in Nat /\ r.first <= MaxSize)
        /\ r.last = Static!None \/ (r.last \in Nat /\ r.last <= MaxSize + 1)
    BY <2>1, Numbers
  <2> QED
    BY <2>2, <2>3, NoneIsLow
<1> QED
  BY <1>1, <1>2 DEF Static!Ranges

\* The slice that the code makes of a range that it neither refuses nor ignores,
\* for a file of this size.
Parsed(r) == Static!ParseRange(r)
SliceStart(r, size) ==
  IF Parsed(r).start # Static!None /\ Parsed(r).start < 0 THEN Parsed(r).start + size
  ELSE Parsed(r).start
SliceEnd(r, size) ==
  IF Parsed(r).end # Static!None /\ Parsed(r).end > size THEN size ELSE Parsed(r).end
Refused(r, size) ==
  (Parsed(r).start # Static!None /\ Parsed(r).start >= size) \/ Parsed(r).end = 0
Part(r, size) == Static!ContentRange(SliceStart(r, size), SliceEnd(r, size), size)

\* What the slice is, for each form that a range has.
LEMMA SliceForms ==
  ASSUME NEW r \in Static!Ranges, NEW size \in Nat
  PROVE  /\ r.first = Static!None /\ r.last = Static!None =>
              /\ Parsed(r).start = Static!None /\ Parsed(r).end = Static!None
              /\ SliceStart(r, size) = Static!None /\ SliceEnd(r, size) = Static!None
         /\ r.first = Static!None /\ r.last = 0 => Parsed(r).end = 0
         /\ r.first = Static!None /\ r.last # Static!None /\ r.last # 0 =>
              /\ Parsed(r).start = -r.last /\ Parsed(r).end = Static!None
              /\ SliceStart(r, size) = size - r.last /\ SliceEnd(r, size) = Static!None
         /\ r.first # Static!None /\ r.last = Static!None =>
              /\ Parsed(r).start = r.first /\ Parsed(r).end = Static!None
              /\ SliceStart(r, size) = r.first /\ SliceEnd(r, size) = Static!None
         /\ r.first # Static!None /\ r.last # Static!None =>
              /\ Parsed(r).start = r.first /\ Parsed(r).end = r.last + 1
              /\ SliceStart(r, size) = r.first
              /\ SliceEnd(r, size) = IF r.last + 1 > size THEN size ELSE r.last + 1
<1>1. /\ r.first = Static!None \/ (r.first \in Nat /\ r.first <= MaxSize)
      /\ r.last = Static!None \/ (r.last \in Nat /\ r.last <= MaxSize + 1)
  BY RangeTypes
<1>2. ASSUME r.first = Static!None, r.last = Static!None
      PROVE  /\ Parsed(r).start = Static!None /\ Parsed(r).end = Static!None
             /\ SliceStart(r, size) = Static!None /\ SliceEnd(r, size) = Static!None
  <2>1. Parsed(r) = [start |-> Static!None, end |-> Static!None]
    BY <1>2, NoneIsLow DEF Parsed, Static!ParseRange
  <2> QED
    BY <2>1 DEF SliceStart, SliceEnd
<1>3. ASSUME r.first = Static!None, r.last = 0
      PROVE  Parsed(r).end = 0
  <2>1. Parsed(r) = [start |-> Static!None, end |-> 0]
    BY <1>3, NoneIsLow DEF Parsed, Static!ParseRange
  <2> QED
    BY <2>1
<1>4. ASSUME r.first = Static!None, r.last # Static!None, r.last # 0
      PROVE  /\ Parsed(r).start = -r.last /\ Parsed(r).end = Static!None
             /\ SliceStart(r, size) = size - r.last /\ SliceEnd(r, size) = Static!None
  <2>1. r.last \in Nat /\ r.last > 0 /\ r.last <= MaxSize + 1
    BY <1>1, <1>4
  <2>2. Parsed(r) = [start |-> -r.last, end |-> Static!None]
    BY <1>4, <2>1 DEF Parsed, Static!ParseRange
  <2>3. -r.last # Static!None /\ -r.last < 0 /\ -r.last + size = size - r.last
    BY <2>1, NoneIsLow, Numbers
  <2> QED
    BY <2>2, <2>3 DEF SliceStart, SliceEnd
<1>5. ASSUME r.first # Static!None, r.last = Static!None
      PROVE  /\ Parsed(r).start = r.first /\ Parsed(r).end = Static!None
             /\ SliceStart(r, size) = r.first /\ SliceEnd(r, size) = Static!None
  <2>1. Parsed(r) = [start |-> r.first, end |-> Static!None]
    BY <1>5, NoneIsLow DEF Parsed, Static!ParseRange
  <2> QED
    BY <1>1, <1>5, <2>1 DEF SliceStart, SliceEnd
<1>6. ASSUME r.first # Static!None, r.last # Static!None
      PROVE  /\ Parsed(r).start = r.first /\ Parsed(r).end = r.last + 1
             /\ SliceStart(r, size) = r.first
             /\ SliceEnd(r, size) = IF r.last + 1 > size THEN size ELSE r.last + 1
  <2>1. Parsed(r) = [start |-> r.first, end |-> r.last + 1]
    BY <1>6 DEF Parsed, Static!ParseRange
  <2>2. r.last + 1 # Static!None
    BY <1>1, <1>6, NoneIsLow
  <2> QED
    BY <1>1, <1>6, <2>1, <2>2 DEF SliceStart, SliceEnd
<1> QED
  BY <1>2, <1>3, <1>4, <1>5, <1>6

\* A slice that is no part of the file is all of it; another is the part that was
\* asked for, unless the range is one that the code does not expect.
LEMMA SliceIsThePart ==
  ASSUME NEW r \in Static!Ranges, NEW size \in Nat, ~Refused(r, size)
  PROVE  LET start == SliceStart(r, size)
             end   == SliceEnd(r, size)
             part_ == Part(r, size)
         IN  /\ start \in Int /\ end \in Int
             /\ size = part_.last + 1 - part_.first =>
                  start \in {Static!None, 0} /\ end \in {Static!None, size}
             /\ size # part_.last + 1 - part_.first /\ ~Strange(r, size) =>
                  /\ part_ = [first |-> First(r, size), last |-> Last(r, size), size |-> size]
                  /\ start = First(r, size) /\ 0 <= start /\ start <= Last(r, size)
                  /\ Last(r, size) < size
                  /\ \/ end = Last(r, size) + 1
                     \/ end = Static!None /\ Last(r, size) = size - 1
<1> DEFINE start == SliceStart(r, size)
           end   == SliceEnd(r, size)
<1>1. /\ r.first = Static!None \/ (r.first \in Nat /\ r.first <= MaxSize)
      /\ r.last = Static!None \/ (r.last \in Nat /\ r.last <= MaxSize + 1)
  BY RangeTypes
<1>2. Part(r, size) = [first |-> IF start = Static!None THEN 0 ELSE start,
                       last  |-> (IF end \in {Static!None, 0} THEN size ELSE end) - 1,
                       size  |-> size]
  BY DEF Part, Static!ContentRange
<1> HIDE DEF start, end
<1>3. CASE r.first = Static!None /\ r.last = Static!None
  <2>1. start = Static!None /\ end = Static!None
    BY <1>3, SliceForms DEF start, end
  <2>2. Part(r, size) = [first |-> 0, last |-> size - 1, size |-> size]
    BY <1>2, <2>1
  <2> QED
    BY <2>1, <2>2, NoneIsLow DEF start, end
<1>4. CASE r.first = Static!None /\ r.last # Static!None
  <2>1. r.last \in Nat /\ r.last > 0
    BY <1>1, <1>4, SliceForms DEF Refused
  <2>2. start = size - r.last /\ end = Static!None
    BY <1>4, <2>1, SliceForms DEF start, end
  <2>3. Static!None # start
    BY <1>1, <1>4, <2>1, <2>2, NoneIsLow, Numbers
  <2>4. Part(r, size) = [first |-> start, last |-> size - 1, size |-> size]
    BY <1>2, <2>2, <2>3
  <2>5. First(r, size) = start /\ Last(r, size) = size - 1
    BY <1>4, <2>2 DEF First, Last, Suffix
  <2>6. ~Strange(r, size) => r.last <= size
    BY <1>4, <2>1 DEF Strange, Suffix
  <2> QED
    BY <2>1, <2>2, <2>4, <2>5, <2>6, NoneIsLow DEF start, end
<1>5. CASE r.first # Static!None /\ r.last = Static!None
  <2>1. start = r.first /\ end = Static!None /\ r.first < size /\ r.first \in Nat
    BY <1>1, <1>5, SliceForms DEF Refused, start, end
  <2>2. Part(r, size) = [first |-> start, last |-> size - 1, size |-> size]
    BY <1>2, <1>5, <2>1
  <2>3. First(r, size) = start /\ Last(r, size) = size - 1
    BY <1>5, <2>1 DEF First, Last, Suffix, Static!Most
  <2> QED
    BY <2>1, <2>2, <2>3, NoneIsLow DEF start, end
<1>6. CASE r.first # Static!None /\ r.last # Static!None
  <2>1. /\ start = r.first /\ r.first < size /\ r.first \in Nat /\ r.last \in Nat
        /\ end = IF r.last + 1 > size THEN size ELSE r.last + 1
    BY <1>1, <1>6, SliceForms DEF Refused, start, end
  <2>2. end \in Nat /\ end > 0 /\ end <= size /\ end # Static!None
    BY <2>1, NoneIsLow
  <2>3. Part(r, size) = [first |-> start, last |-> end - 1, size |-> size]
    BY <1>2, <1>6, <2>1, <2>2
  <2>4. First(r, size) = start /\ Last(r, size) = end - 1
    <3>1. First(r, size) = start
      BY <1>6, <2>1 DEF First, Suffix, Static!Most
    <3>2. Last(r, size) = IF r.last < size - 1 THEN r.last ELSE size - 1
      BY <1>6 DEF Last, Suffix, Static!Least
    <3> QED
      BY <2>1, <3>1, <3>2
  <2>5. ~Strange(r, size) => start < end
    BY <1>6, <2>1 DEF Strange, Suffix
  <2> QED
    BY <2>1, <2>2, <2>3, <2>4, <2>5, NoneIsLow DEF start, end
<1> QED
  BY <1>3, <1>4, <1>5, <1>6

\* A step that leaves the file, the request and what os.stat saw alone.
LEMMA SameRequest ==
  ASSUME SameFile, UNCHANGED <<file, stat>>, at \notin {"new", "stat"}
  PROVE  SameFile'
BY DEF SameFile

\* Writing the file anew takes nothing back that the request has promised.
LEMMA RewriteRange ==
  ASSUME RangeInv, Static!Rewrite
  PROVE  RangeInv'
<1>1. CacheInv'
  BY RewriteCache DEF RangeInv
<1>2. /\ file'.version = file.version + 1 /\ seen' = seen \cup {file.version + 1}
      /\ file.version \in Nat /\ file.version \in seen
      /\ at \notin {"new", "stat"} => stat.version \in Nat /\ stat.version <= file.version
  BY RewriteTypes DEF RangeInv, CacheInv, FileTypes, VersionsOK, Disk
<1>3. UNCHANGED <<get, at, stat, range, pos, remaining, body, status, contentRange>>
  BY DEF Static!Rewrite
<1>4. SameFile'
  BY <1>2, <1>3 DEF SameFile
<1>5. SliceOK'
  BY <1>3 DEF RangeInv, SliceOK
<1>6. seen' # {stat.version}
  <2>1. file.version \in seen' /\ file.version + 1 \in seen'
    BY <1>2
  <2> QED
    BY <1>2, <2>1
<1>7. ReadOK'
  BY <1>3, <1>6 DEF RangeInv, ReadOK, Start
<1>8. RangesAreServed'
  BY <1>3, <1>6 DEF RangeInv, RangesAreServed, Static!RangesAreServed
<1> QED
  BY <1>1, <1>4, <1>5, <1>7, <1>8 DEF RangeInv

\* The body is still to be written: nothing is promised of it.
LEMMA NothingServed ==
  ASSUME at' # "done" PROVE RangesAreServed'
BY DEF RangesAreServed, Static!RangesAreServed

\* Until get() has compared the versions (web.py:2000-2025), no range is served.
LEMMA BeginRange ==
  ASSUME RangeInv,
         \/ Static!Get \/ Static!Stat
         \/ Static!Hash \/ Static!HashChunk \/ Static!HashFails
  PROVE  RangeInv'
<1> DEFINE Hashing == Static!Hash \/ Static!HashChunk \/ Static!HashFails
<1>1. CacheInv'
  BY CacheStep DEF RangeInv, Static!Next
<1>2. at' \in {"stat", "hash", "hashing", "decide"}
  BY DEF Static!Get, Static!Stat, Static!Hash, Static!HashChunk, Static!HashFails
<1>3. Hashing => /\ at \in {"hash", "hashing"}
                 /\ UNCHANGED <<file, stat, range, body, remaining>>
                 /\ pos' \in Int
  <2>1. CASE Static!Hash \/ Static!HashFails
    BY <2>1 DEF Static!Hash, Static!HashFails, RangeInv, ReadOK
  <2>2. CASE Static!HashChunk
    <3>1. pos \in Int /\ file.size \in Nat
      BY DEF RangeInv, ReadOK, CacheInv, FileTypes, Disk
    <3> QED
      BY <2>2, <3>1, Numbers DEF Static!HashChunk, Static!Least, Static!Most
  <2> QED
    BY <2>1, <2>2
<1> HIDE DEF Hashing
<1>4. Static!Get \/ Static!Stat \/ Hashing
  BY DEF Hashing
<1>5. SameFile'
  <2>1. CASE Static!Get
    BY <2>1 DEF Static!Get, SameFile
  <2>2. CASE Static!Stat
    BY <2>2 DEF Static!Stat, SameFile
  <2>3. CASE Hashing
    BY <1>3, <2>3, SameRequest DEF RangeInv
  <2> QED
    BY <1>4, <2>1, <2>2, <2>3
<1>6. /\ range'.start \in Int /\ range'.end \in Int
      /\ range'.start = Static!None /\ range'.end = Static!None
  <2>1. CASE Static!Get
    BY <2>1, NoneIsLow DEF Static!Get
  <2>2. CASE Static!Stat \/ Hashing
    BY <1>3, <2>2 DEF Static!Stat, RangeInv, SliceOK
  <2> QED
    BY <1>4, <2>1, <2>2
<1>7. SliceOK'
  BY <1>2, <1>6 DEF SliceOK
<1>8. body' = 0 /\ pos' \in Int /\ remaining' \in Int
  <2>1. CASE Static!Get
    BY <2>1, NoneIsLow DEF Static!Get
  <2>2. CASE Static!Stat \/ Hashing
    BY <1>3, <2>2 DEF Static!Stat, RangeInv, ReadOK
  <2> QED
    BY <1>4, <2>1, <2>2
<1>9. ReadOK'
  BY <1>2, <1>8 DEF ReadOK
<1> QED
  BY <1>1, <1>2, <1>5, <1>7, <1>9, NothingServed DEF RangeInv

\* The handler decides.
LEMMA DecideRange ==
  ASSUME RangeInv, Static!Decide
  PROVE  RangeInv'
<1> DEFINE r    == get'.range
           size == stat.size
           part_ == Part(r, size)
<1>1. CacheInv'
  BY CacheStep DEF RangeInv, Static!Next
<1>2. /\ at = "decide" /\ r \in Static!Ranges /\ size \in Nat
  BY <1>1 DEF Static!Decide, RangeInv, CacheInv, FileTypes, Disk
<1>3. UNCHANGED <<file, stat, pos, remaining, body, seen>>
  BY DEF Static!Decide, Static!Slice, Static!Answer
<1>4. SameFile'
  BY <1>2, <1>3, SameRequest DEF RangeInv
<1>5. \/ status' = 304 /\ at' = "done" /\ range' = range
      \/ status' = 200 /\ at' = "open" /\ range' = range /\ ~r.unit
      \/ status' = 416 /\ at' = "done" /\ range' = range /\ Refused(r, size) /\ r.unit
      \/ /\ ~Refused(r, size) /\ at' = "open" /\ r.unit
         /\ range' = [start |-> SliceStart(r, size), end |-> SliceEnd(r, size)]
         /\ \/ /\ size # part_.last + 1 - part_.first
               /\ status' = 206 /\ contentRange' = <<part_>>
            \/ size = part_.last + 1 - part_.first /\ status' = 200
  <2>1. CASE Static!NotModified
    BY <2>1 DEF Static!Decide, Static!Answer
  <2>2. CASE ~Static!NotModified
    <3>1. PICK r0 \in Static!Ranges : get' = [get EXCEPT !.range = r0] /\ Static!Slice(r0)
      BY <2>2 DEF Static!Decide
    <3>2. r = r0
      BY <3>1 DEF RangeInv, CacheInv, FileTypes
    <3> QED
      BY <3>1, <3>2 DEF Static!Slice, Static!Answer, Refused, Parsed, SliceStart, SliceEnd,
         Part
  <2> QED
    BY <2>1, <2>2
<1>6. body = 0 /\ pos \in Int /\ remaining \in Int
  BY <1>2 DEF RangeInv, ReadOK
<1>7. ReadOK'
  BY <1>3, <1>5, <1>6 DEF ReadOK
<1>8. /\ range.start = Static!None /\ range.end = Static!None
      /\ get'.range = r /\ stat'.size = size
  BY <1>2, <1>3 DEF RangeInv, SliceOK
<1>9. /\ r.first = Static!None \/ (r.first \in Nat /\ r.first <= MaxSize)
      /\ r.last = Static!None \/ (r.last \in Nat /\ r.last <= MaxSize + 1)
      /\ ~r.unit => r.first = Static!None /\ r.last = Static!None
  BY <1>2, RangeTypes
<1> HIDE DEF r, size, part_
<1>10. CASE status' = 304 /\ at' = "done" /\ range' = range
  <2>1. SliceOK'
    BY <1>8, <1>10, NoneIsLow DEF SliceOK
  <2>2. RangesAreServed'
    BY <1>10 DEF RangesAreServed, Static!RangesAreServed
  <2> QED
    BY <1>1, <1>4, <1>7, <2>1, <2>2 DEF RangeInv
<1>11. CASE status' = 200 /\ at' = "open" /\ range' = range
  <2>1. SliceOK'
    BY <1>8, <1>11, NoneIsLow DEF SliceOK
  <2> QED
    BY <1>1, <1>4, <1>7, <1>11, <2>1, NothingServed DEF RangeInv
<1>12. CASE status' = 416 /\ at' = "done" /\ range' = range /\ Refused(r, size)
  <2>1. SliceOK'
    BY <1>8, <1>12, NoneIsLow DEF SliceOK
  <2>2. IF Suffix(r) THEN r.last = 0 ELSE r.first >= size
    BY <1>2, <1>9, <1>12, SliceForms, NoneIsLow DEF Refused, Suffix
  <2>3. RangesAreServed'
    BY <1>8, <1>12, <2>2 DEF RangesAreServed, Static!RangesAreServed, Suffix
  <2> QED
    BY <1>1, <1>4, <1>7, <2>1, <2>3 DEF RangeInv
<1>13. CASE /\ ~Refused(r, size) /\ at' = "open"
            /\ range' = [start |-> SliceStart(r, size), end |-> SliceEnd(r, size)]
            /\ \/ /\ size # part_.last + 1 - part_.first
                  /\ status' = 206 /\ contentRange' = <<part_>>
               \/ size = part_.last + 1 - part_.first /\ status' = 200
  <2>1. /\ range'.start = SliceStart(r, size) /\ range'.end = SliceEnd(r, size)
        /\ range'.start \in Int /\ range'.end \in Int
    BY <1>2, <1>13, SliceIsThePart
  <2>2. status' = 200 => /\ range'.start \in {Static!None, 0}
                         /\ range'.end \in {Static!None, size}
    BY <1>2, <1>13, <2>1, SliceIsThePart DEF part_
  <2>3. status' = 206 /\ ~Strange(r, size) =>
          /\ contentRange' = <<[first |-> First(r, size), last |-> Last(r, size),
                                size |-> size]>>
          /\ range'.start = First(r, size) /\ 0 <= First(r, size)
          /\ First(r, size) <= Last(r, size) /\ Last(r, size) < size
          /\ \/ range'.end = Last(r, size) + 1
             \/ range'.end = Static!None /\ Last(r, size) = size - 1
    BY <1>2, <1>13, <2>1, SliceIsThePart DEF part_
  <2>4. SliceOK'
    BY <1>8, <1>13, <2>1, <2>2, <2>3 DEF SliceOK, Strange, Suffix, First, Last
  <2> QED
    BY <1>1, <1>4, <1>7, <1>13, <2>4, NothingServed DEF RangeInv
<1> QED
  BY <1>5, <1>10, <1>11, <1>12, <1>13

\* What the slice promises while nobody has changed the request.
LEMMA SliceStays ==
  ASSUME SliceOK, UNCHANGED <<get, stat, range, contentRange>>,
         at \in {"open", "read"}, at' \in {"open", "read", "done"},
         status' = status \/ (status' = 500 /\ at' = "done")
  PROVE  SliceOK'
BY DEF SliceOK

\* get_content opens the file and seeks.
LEMMA OpenRange ==
  ASSUME RangeInv, Static!Open
  PROVE  RangeInv'
<1> DEFINE r    == get.range
           size == stat.size
<1>1. CacheInv'
  BY CacheStep DEF RangeInv, Static!Next
<1>2. /\ at = "open" /\ r \in Static!Ranges /\ size \in Nat /\ status \in {200, 206}
  BY DEF Static!Open, RangeInv, SliceOK, CacheInv, FileTypes, Disk
<1>3. UNCHANGED <<file, get, stat, range, body, contentRange, seen>>
  BY DEF Static!Open
<1>4. SameFile'
  BY <1>2, <1>3, SameRequest DEF RangeInv
<1>5. \/ Start < 0 /\ status' = 500 /\ at' = "done" /\ UNCHANGED <<pos, remaining>>
      \/ /\ Start >= 0 /\ pos' = Start /\ at' = "read" /\ status' = status
         /\ remaining' = IF range.end = Static!None THEN Static!None ELSE range.end - Start
  BY DEF Static!Open, Start, RangeInv, SliceOK
<1>6. SliceOK'
  BY <1>2, <1>3, <1>5, SliceStays DEF RangeInv
<1>7. body = 0 /\ pos \in Int /\ remaining \in Int /\ range.start \in Int /\ range.end \in Int
  BY <1>2 DEF RangeInv, ReadOK, SliceOK
\* The start, and the end, of a slice that is not strange.
<1>8. status = 200 \/ ~Strange(r, size) =>
        /\ Start >= 0 /\ Start <= size
        /\ range.end # Static!None => range.end >= Start
  <2>1. CASE status = 200
    <3>1. range.start \in {Static!None, 0} /\ range.end \in {Static!None, size}
      BY <1>2, <2>1 DEF RangeInv, SliceOK
    <3> QED
      BY <1>2, <3>1 DEF Start
  <2>2. CASE status = 206 /\ ~Strange(r, size)
    <3> DEFINE first == First(r, size)
               last  == Last(r, size)
    <3>1. /\ range.start = first /\ 0 <= first /\ first <= last /\ last < size
          /\ range.end = last + 1 \/ range.end = Static!None
      BY <1>2, <2>2 DEF RangeInv, SliceOK
    <3>2. last \in Int
      BY <1>2, RangeTypes DEF Last, Static!Least
    <3> HIDE DEF first, last
    <3> QED
      BY <1>2, <1>7, <3>1, <3>2, NoneIsLow DEF Start
  <2> QED
    BY <1>2, <2>1, <2>2
<1> HIDE DEF r, size
<1>9. CASE Start < 0 /\ status' = 500 /\ at' = "done" /\ UNCHANGED <<pos, remaining>>
  <2>1. ReadOK'
    BY <1>3, <1>7, <1>9 DEF ReadOK
  <2>2. Strange(r, size)
    BY <1>7, <1>8, <1>9, NoneIsLow DEF Start
  <2>3. RangesAreServed'
    BY <1>3, <1>9, <2>2 DEF RangesAreServed, Static!RangesAreServed, Strange, Suffix, r, size
  <2> QED
    BY <1>1, <1>4, <1>6, <2>1, <2>3 DEF RangeInv
<1>10. CASE /\ Start >= 0 /\ pos' = Start /\ at' = "read" /\ status' = status
            /\ remaining' = IF range.end = Static!None THEN Static!None
                            ELSE range.end - Start
  <2>1. Start \in Int /\ Start' = Start
    BY <1>3, <1>7 DEF Start
  <2>3. pos' = Start' + body' /\ body' \in Nat /\ pos' \in Int /\ remaining' \in Int
    BY <1>3, <1>7, <1>10, <2>1, NoneIsLow
  <2>4. (status' = 206 => ~Strange(r, size)) =>
          /\ IF range'.end = Static!None THEN remaining' = Static!None
             ELSE remaining' = range'.end - pos' /\ remaining' >= 0
          /\ pos' <= size
    BY <1>2, <1>3, <1>7, <1>8, <1>10, <2>1
  <2>5. get'.range = r /\ stat'.size = size
    BY <1>3 DEF r, size
  <2>6. ReadOK'
    BY <1>10, <2>3, <2>4, <2>5 DEF ReadOK, Strange, Suffix
  <2> QED
    BY <1>1, <1>4, <1>6, <1>10, <2>6, NothingServed DEF RangeInv
<1> QED
  BY <1>5, <1>9, <1>10

\* What one read asks for, and what it gets.
Count == IF remaining # Static!None /\ remaining < ChunkSize THEN remaining ELSE ChunkSize
Unread == Static!Most(file.size - pos, 0)
Got == IF Count < 0 THEN Unread ELSE Static!Least(Count, Unread)

\* A read gets no more than it asks for, and nothing only at the end of the file.
LEMMA ReadTypes ==
  ASSUME pos \in Int, remaining \in Int, file.size \in Nat
  PROVE  /\ Count \in Int /\ Unread \in Nat /\ Got \in Nat /\ Got <= Unread
         /\ Unread > 0 => Unread = file.size - pos
         /\ Unread = 0 => pos >= file.size
         /\ Count >= 0 => Got <= Count
         /\ Got = 0 => Unread = 0 \/ Count = 0
         /\ remaining = Static!None => Count = ChunkSize
         /\ remaining # Static!None => Count <= remaining
         /\ remaining # Static!None /\ remaining > 0 => Count > 0
         /\ remaining # Static!None /\ remaining >= 0 => Count >= 0
<1>1. ChunkSize \in Nat /\ ChunkSize > 0
  BY Numbers
<1>2. /\ Count \in Int
      /\ remaining = Static!None => Count = ChunkSize
      /\ remaining # Static!None => Count <= remaining
      /\ remaining # Static!None /\ remaining > 0 => Count > 0
      /\ remaining # Static!None /\ remaining >= 0 => Count >= 0
  BY <1>1 DEF Count
<1>3. /\ Unread \in Nat
      /\ Unread > 0 => Unread = file.size - pos
      /\ Unread = 0 => pos >= file.size
  BY DEF Unread, Static!Most
<1>4. /\ Got \in Nat /\ Got <= Unread
      /\ Count >= 0 => Got <= Count
      /\ Got = 0 => Unread = 0 \/ Count = 0
  BY <1>2, <1>3 DEF Got, Static!Least
<1> QED
  BY <1>2, <1>3, <1>4

\* One turn of get_content's loop.
LEMMA ReadRange ==
  ASSUME RangeInv, Static!Read
  PROVE  RangeInv'
<1> DEFINE r    == get.range
           size == stat.size
           good == status = 200 \/ ~Strange(r, size)
<1>1. CacheInv'
  BY CacheStep DEF RangeInv, Static!Next
<1>2. /\ at = "read" /\ r \in Static!Ranges /\ size \in Nat /\ status \in {200, 206}
      /\ file.size \in Nat /\ file.version \in seen
  BY DEF Static!Read, RangeInv, SliceOK, CacheInv, FileTypes, Disk
<1>3. UNCHANGED <<file, get, stat, range, contentRange, seen>>
  BY DEF Static!Read
<1>4. SameFile'
  BY <1>2, <1>3, SameRequest DEF RangeInv
<1>5. \/ /\ Got > 0 /\ pos' = pos + Got /\ body' = body + Got
         /\ remaining' = IF remaining = Static!None THEN Static!None ELSE remaining - Got
         /\ UNCHANGED <<at, status>>
      \/ /\ ~(Got > 0) /\ at' = "done" /\ UNCHANGED <<pos, body, remaining>>
         /\ status' = IF remaining = Static!None \/ remaining = 0 THEN status ELSE 500
  BY DEF Static!Read, Static!EndOfContent, Got, Count, Unread
<1>6. SliceOK'
  BY <1>2, <1>3, <1>5, SliceStays DEF RangeInv
<1>7. /\ body \in Nat /\ pos \in Int /\ remaining \in Int
      /\ range.start \in Int /\ range.end \in Int
  BY DEF RangeInv, ReadOK, SliceOK
<1>8. good => /\ pos = Start + body
              /\ IF range.end = Static!None THEN remaining = Static!None
                 ELSE remaining = range.end - pos /\ remaining >= 0
              /\ seen = {stat.version} => pos <= size
  BY <1>2 DEF RangeInv, ReadOK
<1>9. Start \in Int /\ Start' = Start
  BY <1>3, <1>7 DEF Start
<1>10. seen = {stat.version} => file.size = size
  BY <1>2 DEF RangeInv, SameFile
<1>11. get'.range = r /\ stat' = stat
  BY <1>3
<1> HIDE DEF r, size, good
<1>12. CASE /\ Got > 0 /\ pos' = pos + Got /\ body' = body + Got
            /\ remaining' = IF remaining = Static!None THEN Static!None
                            ELSE remaining - Got
            /\ UNCHANGED <<at, status>>
  <2>1. body' \in Nat /\ pos' \in Int /\ remaining' \in Int
    BY <1>2, <1>7, <1>12, ReadTypes, NoneIsLow
  <2>2. good => /\ pos' = Start + body'
                /\ IF range.end = Static!None THEN remaining' = Static!None
                   ELSE remaining' = range.end - pos' /\ remaining' >= 0
    <3>1. CASE range.end = Static!None
      BY <1>2, <1>7, <1>8, <1>9, <1>12, <3>1, ReadTypes
    <3>2. CASE good /\ range.end # Static!None
      <4>1. remaining = range.end - pos /\ remaining >= 0 /\ remaining # Static!None
        BY <1>8, <3>2, NoneIsLow
      <4>2. Got <= remaining /\ Got \in Nat
        BY <1>2, <1>7, <4>1, ReadTypes
      <4> QED
        BY <1>7, <1>8, <1>9, <1>12, <3>2, <4>1, <4>2
    <3> QED
      BY <3>1, <3>2
  <2>3. good /\ seen = {stat.version} => pos' <= size
    BY <1>2, <1>7, <1>8, <1>10, <1>12, ReadTypes
  <2>4. ReadOK'
    BY <1>2, <1>3, <1>9, <1>11, <1>12, <2>1, <2>2, <2>3
       DEF ReadOK, Strange, Suffix, r, size, good
  <2> QED
    BY <1>1, <1>2, <1>4, <1>6, <1>12, <2>4, NothingServed DEF RangeInv
<1>13. CASE /\ ~(Got > 0) /\ at' = "done" /\ UNCHANGED <<pos, body, remaining>>
            /\ status' = IF remaining = Static!None \/ remaining = 0 THEN status ELSE 500
  <2>1. ReadOK'
    BY <1>7, <1>13 DEF ReadOK
  <2>2. Got = 0 /\ (Unread = 0 \/ Count = 0) /\ (Unread = 0 => pos >= file.size)
    BY <1>2, <1>7, <1>13, ReadTypes
  <2>3. remaining = Static!None => Unread = 0
    BY <1>2, <1>7, <2>2, ReadTypes, Numbers
  <2>4. remaining # Static!None /\ remaining > 0 => Unread = 0
    BY <1>2, <1>7, <2>2, ReadTypes
  \* A part that was not strange: its end was read, or the end of the file.
  <2>5. ASSUME status' = 206, ~Strange(r, size)
       PROVE  RangesAreServed'
    <3> DEFINE first == First(r, size)
               last  == Last(r, size)
    <3>1. status = 206 /\ good /\ (remaining = Static!None \/ remaining = 0)
      BY <1>2, <1>13, <2>5 DEF good
    <3>2. /\ contentRange = <<[first |-> first, last |-> last, size |-> size]>>
          /\ range.start = first /\ 0 <= first /\ first <= last /\ last < size
          /\ range.end = last + 1 \/ (range.end = Static!None /\ last = size - 1)
      BY <1>2, <2>5, <3>1 DEF RangeInv, SliceOK, r, size
    <3>3. first \in Int /\ last \in Int
      BY <1>2, <1>7, <3>2, RangeTypes DEF Last, Static!Least
    <3> HIDE DEF first, last
    <3>4. Start = first
      BY <3>2, <3>3, NoneIsLow DEF Start
    <3>5. range.end # Static!None => body = last - first + 1
      BY <1>7, <1>8, <3>1, <3>2, <3>3, <3>4, NoneIsLow
    <3>6. range.end = Static!None /\ seen = {stat.version} => body = last - first + 1
      BY <1>2, <1>7, <1>8, <1>10, <2>2, <2>3, <3>1, <3>2, <3>3, <3>4, NoneIsLow
    <3>7. /\ contentRange' = <<[first |-> first, last |-> last, size |-> size]>>
          /\ range'.end # Static!None \/ seen' = {stat'.version} =>
               body' = last - first + 1
      BY <1>3, <1>13, <3>2, <3>5, <3>6
    <3> QED
      BY <1>11, <2>5, <3>7 DEF RangesAreServed, Static!RangesAreServed, First, Last,
         Suffix, r, size, first, last
  <2>6. ASSUME status' = 206, Strange(r, size)
       PROVE  RangesAreServed'
    BY <1>11, <2>6 DEF RangesAreServed, Static!RangesAreServed, Strange, Suffix, r, size
  <2>7. ASSUME status' = 200
       PROVE  RangesAreServed'
    <3>1. status = 200 /\ good /\ (remaining = Static!None \/ remaining = 0)
      BY <1>2, <1>13, <2>7 DEF good
    <3>2. range.start \in {Static!None, 0} /\ range.end \in {Static!None, size}
      BY <1>2, <3>1 DEF RangeInv, SliceOK, size
    <3>3. Start = 0
      BY <3>2 DEF Start
    <3>4. seen = {stat.version} => body = size
      BY <1>2, <1>7, <1>8, <1>10, <2>2, <2>3, <3>1, <3>2, <3>3, NoneIsLow
    <3>5. seen' = {stat'.version} => body' = stat'.size
      BY <1>3, <1>13, <3>4 DEF size
    <3> QED
      BY <2>7, <3>5 DEF RangesAreServed, Static!RangesAreServed
  <2>8. ASSUME status' = 500
       PROVE  RangesAreServed'
    <3>1. remaining # Static!None /\ remaining # 0
      BY <1>2, <1>13, <2>8
    <3>2. ASSUME good, seen = {stat.version} PROVE FALSE
      <4>1. /\ range.end # Static!None /\ remaining = range.end - pos /\ remaining > 0
            /\ pos >= size
        BY <1>2, <1>7, <1>8, <1>10, <2>2, <2>4, <3>1, <3>2
      <4>2. CASE status = 200
        <5>1. range.end = size
          BY <1>2, <4>1, <4>2 DEF RangeInv, SliceOK, size
        <5> QED
          BY <1>2, <1>7, <4>1, <5>1
      <4>3. CASE status = 206 /\ ~Strange(r, size)
        <5> DEFINE last == Last(r, size)
        <5>1. last < size /\ range.end = last + 1
          BY <1>2, <4>1, <4>3 DEF RangeInv, SliceOK, r, size
        <5>2. last \in Int
          BY <1>2, RangeTypes DEF Last, Static!Least
        <5> HIDE DEF last
        <5> QED
          BY <1>2, <1>7, <4>1, <5>1, <5>2
      <4> QED
        BY <1>2, <3>2, <4>2, <4>3 DEF good
    <3>3. Strange(r, size) \/ seen # {stat.version}
      BY <3>2 DEF good
    <3> QED
      BY <1>3, <1>11, <2>8, <3>3 DEF RangesAreServed, Static!RangesAreServed, Strange,
         Suffix, r, size
  <2>9. RangesAreServed'
    BY <1>2, <1>13, <2>5, <2>6, <2>7, <2>8
  <2> QED
    BY <1>1, <1>4, <1>6, <2>1, <2>9 DEF RangeInv
<1> QED
  BY <1>5, <1>12, <1>13

\* A response with a part has the part that was asked for, whole, and one without
\* an error the whole file, also when the file is rewritten between any two of
\* the handler's calls; an error means that it was, or that the range is strange.
THEOREM RangesHold == Spec => []RangesAreServed
<1>1. Init => RangeInv
  <2> SUFFICES ASSUME Init PROVE RangeInv
    OBVIOUS
  <2>1. Static!Init
    BY DEF Init
  <2>2. CacheInv
    BY CacheInit
  <2>3. /\ at = "new" /\ range = [start |-> Static!None, end |-> Static!None]
        /\ body = 0 /\ pos = 0 /\ remaining = Static!None
    BY <2>1 DEF Static!Init, Static!Fresh
  <2> QED
    BY <2>2, <2>3, NoneIsLow DEF RangeInv, SameFile, SliceOK, ReadOK, RangesAreServed,
       Static!RangesAreServed
<1>2. RangeInv /\ [Next]_vars => RangeInv'
  <2> SUFFICES ASSUME RangeInv, [Next]_vars PROVE RangeInv'
    OBVIOUS
  <2>1. CASE Static!Next
    BY <2>1, RewriteRange, BeginRange, DecideRange, OpenRange, ReadRange DEF Static!Next
  <2>2. CASE UNCHANGED serving
    <3>1. CacheInv'
      BY <2>2, CacheElse DEF RangeInv
    <3>2. SameFile' /\ SliceOK' /\ ReadOK'
      BY <2>2 DEF serving, RangeInv, SameFile, SliceOK, ReadOK, Start
    <3>3. RangesAreServed'
      BY <2>2 DEF serving, RangeInv, RangesAreServed, Static!RangesAreServed
    <3> QED
      BY <3>1, <3>2, <3>3 DEF RangeInv
  <2> QED
    BY <2>1, <2>2 DEF Next, vars
<1>3. RangeInv => RangesAreServed
  BY DEF RangeInv
<1> QED
  BY <1>1, <1>2, <1>3, PTL DEF Spec

-----------------------------------------------------------------------------
(* Logins.                                                                 *)

Unfinished == {"start", "token", "service", "access", "info", "check"}
Results == {"none", "user", "nameless", "None", "AuthError", "exception"}
Answers == {"none", "page", "error", "lost", "cut"}
Wrongs == Mixin!Waiting \cup {"cookie"}

Login == [at : Unfinished \cup {"told", "hangs", "end"},
          token : Tabs \cup {Mixin!Nobody}, hybrid : BOOLEAN, future : Results,
          clears : BOOLEAN, answer : Answers, wrong : SUBSET Wrongs]

\* What the result of a login says: the user, of its own token, when nothing went
\* wrong; one without a name only by Facebook Graph's answer to who it is.
GivesOK(t, l) ==
  /\ l.future = "user" => l.token = t /\ l.wrong = {}
  /\ l.future = "nameless" => l.token = t /\ mixin = "facebookgraph" /\ l.wrong = {"info"}
  /\ l.wrong = {} /\ mixin # "friendfeed" => l.future = "user"

\* What is known of the login l of tab t: while it goes on nothing went wrong, it
\* asks the service with its own token, and only the mix-ins that have a step are
\* at it; after that there is a result.
LoginOK(t, l) ==
  /\ l.at \in Unfinished => l.wrong = {} /\ l.future = "none"
  /\ l.at = "access" => mixin \in Mixin!OAuth \cup {"google", "facebookgraph"}
  /\ l.at = "info" => mixin \in {"oauth", "twitter", "facebook", "facebookgraph"}
  /\ l.at \in {"access", "info", "check"} => l.token = t
  /\ l.at \notin Unfinished => GivesOK(t, l)

\* The one cookie jar holds the token of a tab, the last that asked for one, or
\* none.
JarOK == jar \in Tabs \cup {Mixin!Nobody}

LoginInv ==
  /\ login \in [Tabs -> Login]
  /\ mixin \in Mixins /\ JarOK
  /\ \A t \in Tabs : LoginOK(t, login[t])

\* A step is one of one tab.
LEMMA OneLogin ==
  ASSUME LoginInv, NEW t \in Tabs, NEW l \in Login, LoginOK(t, l), Mixin!Step(t, l),
         JarOK'
  PROVE  LoginInv'
<1>1. login' = [login EXCEPT ![t] = l] /\ mixin' = mixin
  BY DEF Mixin!Step
<1>2. login' \in [Tabs -> Login]
  BY <1>1 DEF LoginInv
<1>3. ASSUME NEW u \in Tabs PROVE LoginOK(u, login[u])'
  <2>1. CASE u = t
    BY <1>1, <2>1 DEF LoginInv, LoginOK, GivesOK
  <2>2. CASE u # t
    BY <1>1, <2>2 DEF LoginInv, LoginOK, GivesOK
  <2> QED
    BY <2>1, <2>2
<1> QED
  BY <1>1, <1>2, <1>3 DEF LoginInv

\* The attributes that steps change, one at a time.
LEMMA SetAt ==
  ASSUME NEW l \in Login, NEW a \in Unfinished \cup {"told", "hangs", "end"}
  PROVE  LET m == [l EXCEPT !.at = a]
         IN  /\ m \in Login /\ m.at = a /\ m.token = l.token /\ m.future = l.future
             /\ m.wrong = l.wrong
BY DEF Login

\* (The future.)
LEMMA SetFuture ==
  ASSUME NEW l \in Login, NEW a \in Results
  PROVE  LET m == [l EXCEPT !.future = a]
         IN  /\ m \in Login /\ m.at = l.at /\ m.token = l.token /\ m.future = a
             /\ m.wrong = l.wrong
BY DEF Login

\* (What went wrong.)
LEMMA SetWrong ==
  ASSUME NEW l \in Login, NEW w \in SUBSET Wrongs
  PROVE  LET m == [l EXCEPT !.wrong = w]
         IN  /\ m \in Login /\ m.at = l.at /\ m.token = l.token /\ m.future = l.future
             /\ m.wrong = w
BY DEF Login

\* (Whose token the request has.)
LEMMA SetToken ==
  ASSUME NEW l \in Login, NEW u \in Tabs \cup {Mixin!Nobody}
  PROVE  LET m == [l EXCEPT !.token = u]
         IN  /\ m \in Login /\ m.at = l.at /\ m.token = u /\ m.future = l.future
             /\ m.wrong = l.wrong
BY DEF Login

\* (What the browser was sent.)
LEMMA SetAnswer ==
  ASSUME NEW l \in Login, NEW a \in Answers
  PROVE  LET m == [l EXCEPT !.answer = a]
         IN  /\ m \in Login /\ m.at = l.at /\ m.token = l.token /\ m.future = l.future
             /\ m.wrong = l.wrong
BY DEF Login

\* (Whether the cookie goes.)
LEMMA SetClears ==
  ASSUME NEW l \in Login, NEW a \in BOOLEAN
  PROVE  LET m == [l EXCEPT !.clears = a]
         IN  /\ m \in Login /\ m.at = l.at /\ m.token = l.token /\ m.future = l.future
             /\ m.wrong = l.wrong
BY DEF Login

\* (Whether Google was also asked for a request token.)
LEMMA SetHybrid ==
  ASSUME NEW l \in Login, NEW a \in BOOLEAN
  PROVE  LET m == [l EXCEPT !.hybrid = a]
         IN  /\ m \in Login /\ m.at = l.at /\ m.token = l.token /\ m.future = l.future
             /\ m.wrong = l.wrong
BY DEF Login

\* After an outcome that is not good, the fetch went wrong.
LEMMA AfterOK ==
  ASSUME NEW l \in Login, NEW answer, l.at \in Mixin!Waiting, l.wrong = {}
  PROVE  LET m == Mixin!After(l, answer)
         IN  /\ m \in Login /\ m.at = l.at /\ m.token = l.token /\ m.future = l.future
             /\ m.wrong = {} <=> answer = "good"
             /\ answer # "good" => m.wrong = {l.at}
<1> DEFINE w == l.wrong \cup {l.at}
<1>1. answer # "good" => Mixin!After(l, answer) = [l EXCEPT !.wrong = w]
  BY DEF Mixin!After
<1>2. w \in SUBSET Wrongs /\ w = {l.at} /\ w # {}
  BY DEF Wrongs
<1> HIDE DEF w
<1>3. CASE answer = "good"
  <2>1. Mixin!After(l, answer) = l
    BY <1>3 DEF Mixin!After
  <2> QED
    BY <1>3, <2>1
<1>4. CASE answer # "good"
  <2> DEFINE m == [l EXCEPT !.wrong = w]
  <2>1. /\ m \in Login /\ m.at = l.at /\ m.token = l.token /\ m.future = l.future
        /\ m.wrong = w
    BY <1>2, SetWrong
  <2>2. Mixin!After(l, answer) = m
    BY <1>1, <1>4
  <2> HIDE DEF m
  <2> QED
    BY <1>2, <1>4, <2>1, <2>2
<1> QED
  BY <1>3, <1>4

\* The last step of a login that has a result.
LEMMA EndsOK ==
  ASSUME LoginInv, NEW t \in Tabs, NEW l \in Login, GivesOK(t, l),
         NEW a \in {"end", "hangs"}, NEW b \in Answers,
         Mixin!Step(t, [l EXCEPT !.at = a, !.answer = b]), JarOK'
  PROVE  LoginInv'
<1> DEFINE l1 == [l EXCEPT !.at = a]
           l2 == [l1 EXCEPT !.answer = b]
<1>1. /\ l1 \in Login /\ l1.at = a /\ l1.token = l.token /\ l1.future = l.future
      /\ l1.wrong = l.wrong
  BY SetAt
<1>2. Mixin!Step(t, l2)
  OBVIOUS
<1> HIDE DEF l1
<1>3. /\ l2 \in Login /\ l2.at = a /\ l2.token = l.token /\ l2.future = l.future
      /\ l2.wrong = l.wrong
  BY <1>1, SetAnswer
<1> HIDE DEF l2
<1>4. LoginOK(t, l2)
  BY <1>3 DEF LoginOK, GivesOK, Unfinished
<1> QED
  BY <1>2, <1>3, <1>4, OneLogin

\* The error page ends a login that has a result.
LEMMA FailsOK ==
  ASSUME LoginInv, NEW t \in Tabs, NEW l \in Login, GivesOK(t, l),
         Mixin!HandleRequestException(t, l)
  PROVE  LoginInv'
<1>1. Mixin!Step(t, [l EXCEPT !.at = "end", !.answer = "error"]) /\ JarOK'
  BY DEF Mixin!HandleRequestException, LoginInv, JarOK
<1>2. "error" \in Answers
  BY DEF Answers
<1> QED
  BY <1>1, <1>2, EndsOK

\* A future is resolved with the user when nothing went wrong, and else with
\* something else.
LEMMA ResolveOK ==
  ASSUME LoginInv, NEW t \in Tabs, NEW l \in Login, NEW result \in Results,
         result = "user" => l.token = t /\ l.wrong = {},
         result = "nameless" => l.token = t /\ mixin = "facebookgraph" /\ l.wrong = {"info"},
         l.wrong = {} /\ mixin # "friendfeed" => result = "user",
         Mixin!Resolve(t, l, result)
  PROVE  LoginInv'
<1> DEFINE resolved == [l EXCEPT !.future = result]
<1>1. /\ resolved \in Login /\ resolved.token = l.token /\ resolved.future = result
      /\ resolved.wrong = l.wrong
  BY SetFuture
<1>2. \/ Mixin!Step(t, [resolved EXCEPT !.at = "told"]) /\ jar' = jar
      \/ Mixin!Step(t, [resolved EXCEPT !.at = "hangs"]) /\ jar' = jar
      \/ Mixin!HandleRequestException(t, resolved)
  BY DEF Mixin!Resolve
<1> HIDE DEF resolved
<1>3. ASSUME NEW a \in {"told", "hangs"}, Mixin!Step(t, [resolved EXCEPT !.at = a]),
             jar' = jar
      PROVE  LoginInv'
  <2> DEFINE m == [resolved EXCEPT !.at = a]
  <2>1. /\ m \in Login /\ m.at = a /\ m.token = l.token /\ m.future = result
        /\ m.wrong = l.wrong
    BY <1>1, SetAt
  <2> HIDE DEF m
  <2>2. LoginOK(t, m)
    BY <2>1 DEF LoginOK, GivesOK, Unfinished
  <2> QED
    BY <1>3, <2>1, <2>2, OneLogin DEF m, LoginInv, JarOK
<1>4. GivesOK(t, resolved)
  BY <1>1 DEF GivesOK
<1>5. CASE Mixin!HandleRequestException(t, resolved)
  BY <1>1, <1>4, <1>5, FailsOK
<1> QED
  BY <1>2, <1>3, <1>5

\* A login of this tab that goes on: another place, its own token or none yet.
LEMMA GoesOn ==
  ASSUME LoginInv, NEW t \in Tabs, NEW l \in Login, l.wrong = {}, l.future = "none",
         NEW a \in Unfinished, Mixin!Step(t, [l EXCEPT !.at = a]), JarOK',
         a \in {"access", "info", "check"} => l.token = t,
         a = "access" => mixin \in Mixin!OAuth \cup {"google", "facebookgraph"},
         a = "info" => mixin \in {"oauth", "twitter", "facebook", "facebookgraph"}
  PROVE  LoginInv'
<1> DEFINE m == [l EXCEPT !.at = a]
<1>1. /\ m \in Login /\ m.at = a /\ m.token = l.token /\ m.future = "none"
      /\ m.wrong = l.wrong
  BY SetAt
<1> HIDE DEF m
<1>2. LoginOK(t, m)
  BY <1>1 DEF LoginOK, Unfinished
<1> QED
  BY <1>1, <1>2, OneLogin DEF m

\* What is known of the tab that takes a step.
LEMMA ThisLogin ==
  ASSUME LoginInv, NEW t \in Tabs
  PROVE  /\ login[t] \in Login /\ LoginOK(t, login[t])
         /\ login[t].at \in Unfinished => login[t].wrong = {} /\ login[t].future = "none"
         /\ mixin \in {"openid", "oauth", "twitter", "friendfeed", "google", "facebook",
                       "facebookgraph"}
BY ApplicationsAssumption DEF LoginInv, LoginOK

\* Going to the service, whichever the mix-in, begins without a user.
LEMMA AuthorizeStep ==
  ASSUME LoginInv, NEW t \in Tabs, Mixin!AuthorizeRedirect(t)
  PROVE  LoginInv'
<1> DEFINE l == login[t]
<1>1. l \in Login /\ l.wrong = {} /\ l.future = "none" /\ JarOK'
  BY ThisLogin DEF Mixin!AuthorizeRedirect, Unfinished, LoginInv, JarOK
<1>2. \/ Mixin!Step(t, [l EXCEPT !.at = "service"])
      \/ Mixin!Step(t, [l EXCEPT !.at = "token"])
      \/ Mixin!Step(t, [l EXCEPT !.at = "service", !.hybrid = TRUE])
  BY ThisLogin DEF Mixin!AuthorizeRedirect, Mixin!OpenIdRedirect, Mixin!GoogleRedirect,
     Mixin!OAuth2Redirect, Mixin!FacebookRedirect, Mixin!OAuthRedirect,
     Mixin!TwitterRedirect
<1>3. CASE Mixin!Step(t, [l EXCEPT !.at = "service"])
  BY <1>1, <1>3, GoesOn DEF Unfinished
<1>4. CASE Mixin!Step(t, [l EXCEPT !.at = "token"])
  BY <1>1, <1>4, GoesOn DEF Unfinished
<1>5. CASE Mixin!Step(t, [l EXCEPT !.at = "service", !.hybrid = TRUE])
  <2> DEFINE l1 == [l EXCEPT !.at = "service"]
             l2 == [l1 EXCEPT !.hybrid = TRUE]
  <2>1. /\ l1 \in Login /\ l1.at = "service" /\ l1.future = "none" /\ l1.wrong = l.wrong
    BY <1>1, SetAt DEF Unfinished
  <2>2. Mixin!Step(t, l2)
    BY <1>5
  <2> HIDE DEF l1
  <2>3. /\ l2 \in Login /\ l2.at = "service" /\ l2.future = "none" /\ l2.wrong = l.wrong
    BY <2>1, SetHybrid
  <2> HIDE DEF l2
  <2>4. LoginOK(t, l2)
    BY <1>1, <2>3 DEF LoginOK, Unfinished
  <2> QED
    BY <1>1, <2>2, <2>3, <2>4, OneLogin
<1> QED
  BY <1>2, <1>3, <1>4, <1>5

\* The handler answers the browser after it was told the user, or why not, or
\* raises.
LEMMA AnswerStep ==
  ASSUME LoginInv, NEW t \in Tabs, Mixin!Answer(t)
  PROVE  LoginInv'
<1> DEFINE l == login[t]
<1>1. l \in Login /\ l.at = "told" /\ LoginOK(t, l)
  BY ThisLogin DEF Mixin!Answer, Mixin!AnswerPage, Mixin!AnswerFails, Mixin!AnswerBreaksOff
<1>2. GivesOK(t, l)
  BY <1>1 DEF LoginOK, Unfinished
<1>3. CASE Mixin!HandleRequestException(t, l)
  BY <1>1, <1>2, <1>3, FailsOK
<1>4. ASSUME NEW a \in {"end", "hangs"}, NEW b \in {"page", "lost", "cut"},
             Mixin!Step(t, [l EXCEPT !.at = a, !.answer = b]), jar' \in {jar, Mixin!Nobody}
      PROVE  LoginInv'
  BY <1>1, <1>2, <1>4, EndsOK DEF LoginInv, JarOK, Answers
<1> DEFINE a == IF style = "coroutine" THEN "end" ELSE "hangs"
<1>5. a \in {"end", "hangs"}
  OBVIOUS
<1>6. CASE Mixin!AnswerBreaksOff(t)
  <2>1. Mixin!Step(t, [l EXCEPT !.at = a, !.answer = "cut"]) /\ jar' \in {jar, Mixin!Nobody}
    BY <1>6 DEF Mixin!AnswerBreaksOff
  <2> HIDE DEF a
  <2> QED
    BY <1>4, <1>5, <2>1
<1>7. CASE Mixin!AnswerPage(t)
  BY <1>4, <1>7 DEF Mixin!AnswerPage
<1>8. CASE Mixin!AnswerFails(t)
  BY <1>3, <1>4, <1>8 DEF Mixin!AnswerFails
<1> QED
  BY <1>6, <1>7, <1>8 DEF Mixin!Answer

\* The user comes back with the token of another tab, or with its own.
LEMMA OAuthStep ==
  ASSUME LoginInv, NEW t \in Tabs, login[t].at = "service", mixin \in Mixin!OAuth,
         Mixin!OAuthUser(t)
  PROVE  LoginInv'
<1> DEFINE l  == login[t]
           w  == IF jar = t THEN l.wrong ELSE l.wrong \cup {"cookie"}
           w0 == l.wrong \cup {"cookie"}
           l1 == [l EXCEPT !.clears = TRUE]
           l2 == [l1 EXCEPT !.token = jar]
           l3 == [l2 EXCEPT !.wrong = w]
           l0 == [l EXCEPT !.wrong = w0]
<1>1. l \in Login /\ l.wrong = {} /\ l.future = "none"
  BY ThisLogin DEF Unfinished
<1>2. /\ w \in SUBSET Wrongs /\ w0 \in SUBSET Wrongs /\ w0 # {}
      /\ w = {} <=> jar = t
  BY <1>1 DEF Wrongs
<1>3. \/ Mixin!Resolve(t, l0, "AuthError")
      \/ jar # t /\ Mixin!Resolve(t, l3, "AuthError")
      \/ jar = t /\ Mixin!Step(t, [l3 EXCEPT !.at = "access"]) /\ jar' = jar
  BY DEF Mixin!OAuthUser, Mixin!TokenMatches
<1> HIDE DEF w, w0
<1>4. l0 \in Login /\ l0.wrong # {}
  BY <1>1, <1>2, SetWrong
<1> HIDE DEF l0
<1>5. l1 \in Login /\ l1.future = "none"
  BY <1>1, SetClears
<1> HIDE DEF l1
<1>6. l2 \in Login /\ l2.future = "none" /\ l2.token = jar
  BY <1>5, SetToken DEF LoginInv, JarOK
<1> HIDE DEF l2
<1>7. l3 \in Login /\ l3.future = "none" /\ l3.token = jar /\ l3.wrong = w
  BY <1>2, <1>6, SetWrong
<1> HIDE DEF l3
<1>9. CASE Mixin!Resolve(t, l0, "AuthError")
  BY <1>4, <1>9, ResolveOK DEF Results
<1>10. CASE jar # t /\ Mixin!Resolve(t, l3, "AuthError")
  BY <1>2, <1>7, <1>10, ResolveOK DEF Results
<1>11. CASE jar = t /\ Mixin!Step(t, [l3 EXCEPT !.at = "access"]) /\ jar' = jar
  BY <1>2, <1>7, <1>11, GoesOn DEF Unfinished, LoginInv, JarOK
<1> QED
  BY <1>3, <1>9, <1>10, <1>11

\* The others ask the service with what the user brought.
LEMMA FetchStep ==
  ASSUME LoginInv, NEW t \in Tabs, login[t].at = "service",
         NEW a \in {"access", "info", "check"}, Mixin!Fetch(t, a),
         a = "access" => mixin \in {"google", "facebookgraph"},
         a = "info" => mixin \in {"oauth", "twitter", "facebook", "facebookgraph"}
  PROVE  LoginInv'
<1> DEFINE l  == login[t]
           l1 == [l EXCEPT !.at = a]
           l2 == [l1 EXCEPT !.token = t]
<1>1. l \in Login /\ l.wrong = {} /\ l.future = "none"
  BY ThisLogin DEF Unfinished
<1>2. /\ l1 \in Login /\ l1.at = a /\ l1.future = "none" /\ l1.wrong = l.wrong
  BY <1>1, SetAt DEF Unfinished
<1>3. Mixin!Step(t, l2) /\ JarOK'
  BY DEF Mixin!Fetch, LoginInv, JarOK
<1> HIDE DEF l1
<1>4. /\ l2 \in Login /\ l2.at = a /\ l2.future = "none" /\ l2.wrong = l.wrong
      /\ l2.token = t
  BY <1>2, SetToken
<1> HIDE DEF l2
<1>5. LoginOK(t, l2)
  BY <1>1, <1>4 DEF LoginOK, Unfinished
<1> QED
  BY <1>3, <1>4, <1>5, OneLogin

\* Coming back from Google, with OpenID or with a token of its OAuth.
LEMMA GoogleStep ==
  ASSUME LoginInv, NEW t \in Tabs, login[t].at = "service", mixin = "google",
         Mixin!GoogleUser(t)
  PROVE  LoginInv'
<1> DEFINE l  == login[t]
           l1 == [l EXCEPT !.at = "check"]
           l2 == [l1 EXCEPT !.token = t]
           l3 == [l2 EXCEPT !.hybrid = FALSE]
<1>1. l \in Login /\ l.wrong = {} /\ l.future = "none"
  BY ThisLogin DEF Unfinished
<1>2. CASE Mixin!Fetch(t, "access")
  BY <1>2, FetchStep
<1>3. CASE Mixin!Step(t, l3) /\ jar' = jar
  <2>1. l1 \in Login /\ l1.at = "check" /\ l1.future = "none" /\ l1.wrong = l.wrong
    BY <1>1, SetAt DEF Unfinished
  <2> HIDE DEF l1
  <2>2. /\ l2 \in Login /\ l2.at = "check" /\ l2.future = "none" /\ l2.wrong = l.wrong
        /\ l2.token = t
    BY <2>1, SetToken
  <2> HIDE DEF l2
  <2>3. /\ l3 \in Login /\ l3.at = "check" /\ l3.future = "none" /\ l3.wrong = l.wrong
        /\ l3.token = t
    BY <2>2, SetHybrid
  <2> HIDE DEF l3
  <2>4. LoginOK(t, l3)
    BY <1>1, <2>3 DEF LoginOK, Unfinished
  <2> QED
    BY <1>3, <2>3, <2>4, OneLogin DEF LoginInv, JarOK
<1> QED
  BY <1>2, <1>3 DEF Mixin!GoogleUser

\* get_authenticated_user, whichever the mix-in.
LEMMA UserStep ==
  ASSUME LoginInv, NEW t \in Tabs, Mixin!GetAuthenticatedUser(t)
  PROVE  LoginInv'
<1>1. login[t].at = "service"
  BY DEF Mixin!GetAuthenticatedUser
<1>2. CASE mixin \in Mixin!OAuth
  BY <1>1, <1>2, OAuthStep DEF Mixin!GetAuthenticatedUser, Mixin!OAuth
<1>3. CASE mixin = "google"
  BY <1>1, <1>3, GoogleStep DEF Mixin!GetAuthenticatedUser, Mixin!OAuth
<1>4. CASE mixin = "openid"
  <2>1. Mixin!Fetch(t, "check")
    BY <1>4 DEF Mixin!GetAuthenticatedUser, Mixin!OAuth, Mixin!OpenIdUser
  <2> QED
    BY <1>1, <2>1, FetchStep
<1>5. CASE mixin = "facebook"
  <2>1. Mixin!Fetch(t, "info")
    BY <1>5 DEF Mixin!GetAuthenticatedUser, Mixin!OAuth, Mixin!FacebookUser
  <2> QED
    BY <1>1, <1>5, <2>1, FetchStep
<1>6. CASE mixin = "facebookgraph"
  <2>1. Mixin!Fetch(t, "access")
    BY <1>6 DEF Mixin!GetAuthenticatedUser, Mixin!OAuth, Mixin!FacebookGraphUser
  <2> QED
    BY <1>1, <1>6, <2>1, FetchStep
<1> QED
  BY <1>2, <1>3, <1>4, <1>5, <1>6, ThisLogin DEF Mixin!OAuth

\* An answer to the request for a token, for access, and to who it is.
LEMMA RequestTokenStep ==
  ASSUME LoginInv, NEW t \in Tabs, NEW answer \in Mixin!Outcomes,
         Mixin!OnRequestToken(t, answer)
  PROVE  LoginInv'
<1> DEFINE l == Mixin!After(login[t], answer)
<1>1. /\ login[t] \in Login /\ login[t].wrong = {} /\ login[t].future = "none"
      /\ login[t].at \in Mixin!Waiting
  BY ThisLogin DEF Mixin!OnRequestToken, Mixin!Waiting, Unfinished
<1>2. l \in Login /\ l.future = "none" /\ (l.wrong = {} <=> answer = "good")
  BY <1>1, AfterOK
<1>3. \/ answer = "good" /\ Mixin!Step(t, [l EXCEPT !.at = "service"]) /\ jar' = t
      \/ answer # "good" /\ Mixin!HandleRequestException(t, l)
  BY DEF Mixin!OnRequestToken
<1> HIDE DEF l
<1>4. CASE answer = "good" /\ Mixin!Step(t, [l EXCEPT !.at = "service"]) /\ jar' = t
  BY <1>2, <1>4, GoesOn DEF Unfinished, JarOK
<1>5. CASE answer # "good" /\ Mixin!HandleRequestException(t, l)
  BY <1>2, <1>5, FailsOK DEF GivesOK
<1> QED
  BY <1>3, <1>4, <1>5

\* The access token has come: it is the one of the tab that asked.
LEMMA AccessTokenStep ==
  ASSUME LoginInv, NEW t \in Tabs, NEW answer \in Mixin!Outcomes,
         Mixin!OnAccessToken(t, answer)
  PROVE  LoginInv'
<1> DEFINE l == Mixin!After(login[t], answer)
           a == IF mixin = "google" THEN "check" ELSE "info"
<1>1. /\ login[t] \in Login /\ login[t].wrong = {} /\ login[t].future = "none"
      /\ login[t].token = t /\ mixin \in Mixin!OAuth \cup {"google", "facebookgraph"}
      /\ login[t].at \in Mixin!Waiting
  BY ThisLogin DEF Mixin!OnAccessToken, Mixin!Waiting, Unfinished, LoginOK
<1>2. /\ l \in Login /\ l.future = "none" /\ (l.wrong = {} <=> answer = "good")
      /\ l.token = t
  BY <1>1, AfterOK
<1>3. \/ answer = "error" /\ Mixin!Resolve(t, l, "AuthError")
      \/ answer = "garbage" /\ Mixin!HandleRequestException(t, l)
      \/ answer = "good" /\ mixin = "friendfeed" /\ Mixin!Resolve(t, l, "exception")
      \/ /\ answer = "good" /\ mixin # "friendfeed" /\ jar' = jar
         /\ Mixin!Step(t, [l EXCEPT !.at = a])
  BY DEF Mixin!OnAccessToken
<1> HIDE DEF l
<1>4. CASE answer = "error" /\ Mixin!Resolve(t, l, "AuthError")
  BY <1>2, <1>4, ResolveOK DEF Results
<1>5. CASE answer = "garbage" /\ Mixin!HandleRequestException(t, l)
  BY <1>2, <1>5, FailsOK DEF GivesOK
<1>6. CASE mixin = "friendfeed" /\ Mixin!Resolve(t, l, "exception")
  BY <1>2, <1>6, ResolveOK DEF Results
<1>7. CASE /\ answer = "good" /\ mixin # "friendfeed" /\ jar' = jar
           /\ Mixin!Step(t, [l EXCEPT !.at = a])
  <2>0. JarOK'
    BY <1>7 DEF LoginInv, JarOK
  <2>1. CASE mixin = "google"
    BY <1>2, <1>7, <2>0, <2>1, GoesOn DEF Unfinished
  <2>2. CASE mixin # "google"
    <3>1. mixin \in {"oauth", "twitter", "facebook", "facebookgraph"}
      BY <1>1, <1>7, <2>2 DEF Mixin!OAuth
    <3> QED
      BY <1>2, <1>7, <2>0, <2>2, <3>1, GoesOn DEF Unfinished
  <2> QED
    BY <2>1, <2>2
<1> QED
  BY <1>3, <1>4, <1>5, <1>6, <1>7

\* The user has come: it is the one of the token that was sent.
LEMMA UserInfoStep ==
  ASSUME LoginInv, NEW t \in Tabs, NEW answer \in Mixin!Outcomes,
         Mixin!OnUserInfo(t, answer)
  PROVE  LoginInv'
<1> DEFINE l == Mixin!After(login[t], answer)
<1>1. /\ login[t] \in Login /\ login[t].wrong = {} /\ login[t].future = "none"
      /\ login[t].token = t
      /\ mixin \in {"oauth", "twitter", "facebook", "facebookgraph"}
      /\ login[t].at = "info" /\ login[t].at \in Mixin!Waiting
  BY ThisLogin DEF Mixin!OnUserInfo, Mixin!Waiting, Unfinished, LoginOK
<1>2. /\ l \in Login /\ l.future = "none" /\ (l.wrong = {} <=> answer = "good")
      /\ l.token = t /\ (answer # "good" => l.wrong = {"info"})
  BY <1>1, AfterOK
<1>3. \/ answer = "good" /\ Mixin!Resolve(t, l, "user")
      \/ answer # "good" /\ \E result \in {"AuthError", "exception", "None"} :
           Mixin!Resolve(t, l, result)
      \/ answer # "good" /\ mixin = "facebookgraph" /\ Mixin!Resolve(t, l, "nameless")
      \/ answer # "good" /\ Mixin!HandleRequestException(t, l)
  BY <1>1 DEF Mixin!OnUserInfo, Mixin!OnOAuthGetUser, Mixin!OnTwitterRequest,
     Mixin!OnFacebookRequest, Mixin!ParseResponse
<1> HIDE DEF l
<1>4. CASE answer = "good" /\ Mixin!Resolve(t, l, "user")
  BY <1>2, <1>4, ResolveOK DEF Results
<1>5. ASSUME answer # "good", NEW result \in {"AuthError", "exception", "None"},
             Mixin!Resolve(t, l, result)
      PROVE  LoginInv'
  BY <1>2, <1>5, ResolveOK DEF Results
<1>6. CASE answer # "good" /\ Mixin!HandleRequestException(t, l)
  BY <1>2, <1>6, FailsOK DEF GivesOK
<1>7. CASE answer # "good" /\ mixin = "facebookgraph" /\ Mixin!Resolve(t, l, "nameless")
  BY <1>2, <1>7, ResolveOK DEF Results
<1> QED
  BY <1>3, <1>4, <1>5, <1>6, <1>7

\* The OpenID provider has confirmed the user, or not.
LEMMA VerifiedStep ==
  ASSUME LoginInv, NEW t \in Tabs, NEW answer \in Mixin!Outcomes,
         Mixin!OnAuthenticationVerified(t, answer)
  PROVE  LoginInv'
<1> DEFINE l == Mixin!After(login[t], answer)
<1>1. /\ login[t] \in Login /\ login[t].wrong = {} /\ login[t].future = "none"
      /\ login[t].token = t /\ login[t].at \in Mixin!Waiting
  BY ThisLogin DEF Mixin!OnAuthenticationVerified, Mixin!Waiting, Unfinished, LoginOK
<1>2. /\ l \in Login /\ l.future = "none" /\ (l.wrong = {} <=> answer = "good")
      /\ l.token = t
  BY <1>1, AfterOK
<1>3. \/ answer = "good" /\ Mixin!Resolve(t, l, "user")
      \/ answer # "good" /\ Mixin!Resolve(t, l, "AuthError")
      \/ answer # "good" /\ Mixin!Resolve(t, l, "None")
  BY DEF Mixin!OnAuthenticationVerified, Mixin!Confirmed
<1> HIDE DEF l
<1>4. CASE answer = "good" /\ Mixin!Resolve(t, l, "user")
  BY <1>2, <1>4, ResolveOK DEF Results
<1>5. CASE answer # "good" /\ Mixin!Resolve(t, l, "AuthError")
  BY <1>2, <1>5, ResolveOK DEF Results
<1>6. CASE answer # "good" /\ Mixin!Resolve(t, l, "None")
  BY <1>2, <1>6, ResolveOK DEF Results
<1> QED
  BY <1>3, <1>4, <1>5, <1>6

\* Every step of every tab.
LEMMA LoginStep ==
  ASSUME LoginInv, Mixin!Next
  PROVE  LoginInv'
<1>1. PICK t \in Tabs : \/ Mixin!AuthorizeRedirect(t) \/ Mixin!GetAuthenticatedUser(t)
                        \/ Mixin!Fetched(t) \/ Mixin!Answer(t)
  BY DEF Mixin!Next
<1>2. CASE Mixin!Fetched(t)
  BY <1>2, RequestTokenStep, AccessTokenStep, UserInfoStep, VerifiedStep DEF Mixin!Fetched
<1> QED
  BY <1>1, <1>2, AuthorizeStep, UserStep, AnswerStep

\* A login gives the user of its own tab, and only if nothing went wrong; and it
\* gives one whenever nothing did: however the logins of several tabs share the
\* one cookie and in whatever order the service answers.  What is a user without
\* fields is made only of the Graph API's answer to who it is, for the token of
\* the own tab.  (With FriendFeed's mix-in every login fails.)
THEOREM LoginsHold == Spec => [](mixin # "friendfeed" => LoginsGiveTheirUser)
<1>1. Init => LoginInv
  <2> SUFFICES ASSUME Init PROVE LoginInv
    OBVIOUS
  <2>1. Mixin!Init
    BY DEF Init
  <2>2. login = [t \in Tabs |-> [at |-> "start", token |-> Mixin!Nobody, hybrid |-> FALSE,
                                 future |-> "none", clears |-> FALSE, answer |-> "none",
                                 wrong |-> {}]]
    BY <2>1 DEF Mixin!Init
  <2>3. login \in [Tabs -> Login]
    BY <2>2 DEF Login, Unfinished, Results, Answers
  <2>4. ASSUME NEW t \in Tabs PROVE LoginOK(t, login[t])
    BY <2>2 DEF LoginOK, Unfinished
  <2> QED
    BY <2>1, <2>3, <2>4 DEF Mixin!Init, LoginInv, JarOK
<1>2. LoginInv /\ [Next]_vars => LoginInv'
  <2> SUFFICES ASSUME LoginInv, [Next]_vars PROVE LoginInv'
    OBVIOUS
  <2>1. CASE Mixin!Next
    BY <2>1, LoginStep
  <2>2. CASE UNCHANGED entering
    BY <2>2 DEF entering, LoginInv, LoginOK, GivesOK, JarOK
  <2> QED
    BY <2>1, <2>2 DEF Next, vars
<1>3. LoginInv => (mixin # "friendfeed" => LoginsGiveTheirUser)
  BY DEF LoginInv, LoginOK, GivesOK, Unfinished, LoginsGiveTheirUser, Mixin!LoginsGiveTheirUser
<1> QED
  BY <1>1, <1>2, <1>3, PTL DEF Spec

-----------------------------------------------------------------------------
(* Handlers.                                                               *)

\* A response has the eleven attributes of the handler's, ...
IsRecord(r) ==
  r = [headersWritten |-> r.headersWritten, finished |-> r.finished,
       buffer |-> r.buffer, status |-> r.status, length |-> r.length,
       typed |-> r.typed, gzipping |-> r.gzipping, chunking |-> r.chunking,
       wire |-> r.wire, listening |-> r.listening, raised |-> r.raised]

\* ... and what was sent is a sequence, of whatever pieces.
IsSent(wire) == \E pieces : wire \in Seq(pieces)

IsResponse(r) == IsRecord(r) /\ IsSent(r.wire)

\* A finished response has sent its headers and everything that was written, and
\* the connection no longer calls the handler when it is lost.
EndOK(r) == r.finished => r.headersWritten /\ r.buffer = 0 /\ ~r.listening

\* s is what a call leaves of r.
Leaves(r, s) ==
  /\ IsResponse(s) /\ EndOK(s)
  /\ r.finished => s.finished /\ s.wire = r.wire

HandlerInv == IsResponse(response) /\ EndOK(response)

\* What a call leaves of what a call leaves.
LEMMA LeavesAgain ==
  ASSUME NEW r, NEW s, NEW u, Leaves(r, s), Leaves(s, u)
  PROVE  Leaves(r, u)
BY DEF Leaves

\* What is alike where it counts, is left alike.
LEMMA Alike ==
  ASSUME NEW r, NEW s, IsResponse(r), EndOK(r), IsRecord(s),
         s.wire = r.wire, s.finished = r.finished,
         s.headersWritten = r.headersWritten, s.buffer = r.buffer,
         s.listening = r.listening
  PROVE  Leaves(r, s)
BY DEF IsResponse, EndOK, Leaves

\* An attribute that no promise is about is set.
LEMMA SetRaised ==
  ASSUME NEW r, IsResponse(r), EndOK(r), NEW b
  PROVE  LET s == [r EXCEPT !.raised = b]
         IN  /\ Leaves(r, s) /\ s.finished = r.finished /\ s.raised = b
             /\ s.headersWritten = r.headersWritten /\ s.buffer = r.buffer
             /\ s.listening = r.listening /\ s.status = r.status
<1> DEFINE s == [r EXCEPT !.raised = b]
<1>1. IsRecord(r)
  BY DEF IsResponse
<1>2. /\ IsRecord(s) /\ s.wire = r.wire /\ s.finished = r.finished /\ s.raised = b
      /\ s.headersWritten = r.headersWritten /\ s.buffer = r.buffer
      /\ s.listening = r.listening /\ s.status = r.status
  BY <1>1 DEF IsRecord
<1> HIDE DEF s
<1>3. Leaves(r, s)
  BY <1>1, <1>2, Alike
<1> QED
  BY <1>2, <1>3 DEF s

\* The response of a call that fails.
LEMMA RaiseLeaves ==
  ASSUME NEW r, IsResponse(r), EndOK(r)
  PROVE  LET s == Handler!Raise(r)
         IN  Leaves(r, s) /\ s.finished = r.finished
             /\ s.headersWritten = r.headersWritten
<1> DEFINE b == TRUE
<1>1. Handler!Raise(r) = [r EXCEPT !.raised = b]
  BY DEF Handler!Raise
<1> HIDE DEF b
<1> QED
  BY <1>1, SetRaised

\* The status of a response is set.
LEMMA SetStatus ==
  ASSUME NEW r, IsResponse(r), EndOK(r), NEW b
  PROVE  LET s == [r EXCEPT !.status = b]
         IN  /\ Leaves(r, s) /\ s.finished = r.finished
             /\ s.headersWritten = r.headersWritten /\ s.buffer = r.buffer
             /\ s.listening = r.listening
<1> DEFINE s == [r EXCEPT !.status = b]
<1>1. IsRecord(r)
  BY DEF IsResponse
<1>2. /\ IsRecord(s) /\ s.wire = r.wire /\ s.finished = r.finished
      /\ s.headersWritten = r.headersWritten /\ s.buffer = r.buffer
      /\ s.listening = r.listening
  BY <1>1 DEF IsRecord
<1> HIDE DEF s
<1>3. Leaves(r, s)
  BY <1>1, <1>2, Alike
<1> QED
  BY <1>2, <1>3 DEF s

\* A chunk is written, if the response is not finished.
LEMMA WriteLeaves ==
  ASSUME NEW r, IsResponse(r), EndOK(r), NEW n
  PROVE  LET s == Handler!Write(r, n)
         IN  Leaves(r, s) /\ s.finished = r.finished /\ s.headersWritten = r.headersWritten
<1>1. CASE r.finished
  BY <1>1, RaiseLeaves DEF Handler!Write
<1>2. CASE ~r.finished
  <2> DEFINE m == r.buffer + n
             s == [r EXCEPT !.buffer = m]
  <2>1. Handler!Write(r, n) = s
    BY <1>2 DEF Handler!Write
  <2> HIDE DEF m
  <2>2. IsRecord(r)
    BY DEF IsResponse
  <2>3. IsRecord(s) /\ s.finished = r.finished /\ s.headersWritten = r.headersWritten
        /\ s.wire = r.wire
    BY <2>2 DEF IsRecord
  <2> HIDE DEF s
  <2> QED
    BY <1>2, <2>1, <2>3 DEF Leaves, EndOK, IsResponse
<1> QED
  BY <1>1, <1>2

\* Sequences put together are a sequence.
LEMMA SentTogether ==
  ASSUME NEW v, NEW w, IsSent(v), IsSent(w)
  PROVE  IsSent(v \o w)
<1>1. PICK p : v \in Seq(p)
  BY DEF IsSent
<1>2. PICK q : w \in Seq(q)
  BY DEF IsSent
<1>3. v \in Seq(p \cup q)
  BY <1>1
<1>4. w \in Seq(p \cup q)
  BY <1>2
<1>5. v \o w \in Seq(p \cup q)
  BY <1>3, <1>4
<1> QED
  BY <1>5 DEF IsSent

\* Nothing put to a sequence leaves it as it was.
LEMMA NothingSent ==
  ASSUME NEW w, IsSent(w)
  PROVE  w \o <<>> = w
<1>1. PICK p : w \in Seq(p)
  BY DEF IsSent
<1> QED
  BY <1>1

\* One piece, or none, is a sequence.
LEMMA OneSent ==
  /\ IsSent(<<>>)
  /\ \A x : IsSent(<<x>>)
<1>1. <<>> \in Seq({})
  OBVIOUS
<1>2. ASSUME NEW x PROVE IsSent(<<x>>)
  <2>1. <<x>> \in Seq({x})
    OBVIOUS
  <2> QED
    BY <2>1 DEF IsSent
<1> QED
  BY <1>1, <1>2 DEF IsSent

\* A Boolean attribute is set.
LEMMA SetHeadersWritten ==
  ASSUME NEW r, IsRecord(r), NEW b
  PROVE  LET s == [r EXCEPT !.headersWritten = b]
         IN  /\ IsRecord(s) /\ s.headersWritten = b
             /\ s.buffer = r.buffer /\ s.finished = r.finished /\ s.listening = r.listening
BY DEF IsRecord

\* Nothing is added to what a finished response has sent, and what any response
\* has sent stays a sequence.
LEMMA FlushLeaves ==
  ASSUME NEW r, IsResponse(r), EndOK(r), NEW finishing \in BOOLEAN,
         r.finished => ~finishing
  PROVE  LET s == Handler!Flush(r, finishing)
         IN  /\ Leaves(r, s) /\ s.finished = r.finished
             /\ ~r.finished => /\ s.headersWritten /\ s.buffer = 0
                               /\ s.listening = r.listening
<1> DEFINE gzip    == Handler!Compressing(r, finishing)
           size    == IF gzip THEN r.buffer + 1 ELSE r.buffer
           length  == IF gzip /\ r.length # {} THEN {size} ELSE r.length
           chunked == Handler!Chunking([r EXCEPT !.length = length])
           head    == [kind |-> "head", n |-> 0, status |-> r.status, length |-> length,
                       chunked |-> chunked, complete |-> finishing]
           a       == IF r.headersWritten THEN <<>> ELSE <<head>>
           b       == IF request.method = "HEAD" THEN <<>>
                      ELSE Handler!Framed(chunked, size, finishing)
           wire    == r.wire \o a \o b
           chunking == IF ~r.headersWritten /\ r.status = "304" THEN r.chunking ELSE chunked
           s == [r EXCEPT !.buffer = 0, !.length = length, !.gzipping = gzip,
                          !.headersWritten = TRUE, !.chunking = chunking, !.wire = wire]
<1>1. Handler!Flush(r, finishing) = IF r.finished /\ r.gzipping THEN Handler!Raise(r) ELSE s
  BY DEF Handler!Flush
<1>2. CASE r.finished /\ r.gzipping
  <2>1. Handler!Flush(r, finishing) = Handler!Raise(r)
    BY <1>1, <1>2
  <2> QED
    BY <1>2, <2>1, RaiseLeaves
<1>3. CASE ~(r.finished /\ r.gzipping)
  <2>0. IsSent(r.wire) /\ IsRecord(r)
    BY DEF IsResponse
  <2>1. IsSent(wire)
    <3> HIDE DEF head, chunked, size
    <3>2. IsSent(a)
      BY OneSent
    <3>3. IsSent(b)
      <4>1. ASSUME NEW u, NEW v, NEW P, NEW Q
            PROVE  IsSent((IF P THEN <<u>> ELSE <<>>) \o (IF Q THEN <<v>> ELSE <<>>))
        <5>1. IsSent(IF P THEN <<u>> ELSE <<>>) /\ IsSent(IF Q THEN <<v>> ELSE <<>>)
          BY OneSent
        <5> QED
          BY <5>1, SentTogether
      <4>2. IsSent(Handler!Framed(chunked, size, finishing))
        BY <4>1 DEF Handler!Framed
      <4> QED
        BY <4>2, OneSent
    <3> HIDE DEF a, b
    <3>4. IsSent(r.wire \o a)
      BY <3>2, <2>0, SentTogether
    <3> QED
      BY <3>3, <3>4, SentTogether
  <2>2. r.finished => wire = r.wire
    <3> SUFFICES ASSUME r.finished PROVE wire = r.wire
      OBVIOUS
    <3>1. r.headersWritten /\ r.buffer = 0 /\ ~finishing
      BY DEF EndOK
    <3>2. ~gzip
      BY <1>3 DEF Handler!Compressing
    <3>3. Handler!Framed(chunked, size, finishing) = <<>> \o <<>>
      <4> HIDE DEF chunked, gzip
      <4> QED
        BY <3>1, <3>2 DEF Handler!Framed
    <3> HIDE DEF chunked, head, size
    <3>4. <<>> \o <<>> = <<>>
      BY OneSent, NothingSent
    <3>5. a = <<>> /\ b = <<>>
      BY <3>1, <3>3, <3>4
    <3> HIDE DEF a, b
    <3>6. r.wire \o <<>> = r.wire
      BY <2>0, NothingSent
    <3> QED
      BY <3>5, <3>6
  <2> HIDE DEF wire, gzip, length, chunking
  <2>3. IsRecord(s) /\ s.finished = r.finished /\ s.headersWritten = TRUE
        /\ s.buffer = 0 /\ s.listening = r.listening /\ s.wire = wire
    <3> DEFINE s1 == [r EXCEPT !.buffer = 0]
               s2 == [s1 EXCEPT !.length = length]
               s3 == [s2 EXCEPT !.gzipping = gzip]
               s4 == [s3 EXCEPT !.headersWritten = TRUE]
               s5 == [s4 EXCEPT !.chunking = chunking]
    <3>1. s = [s5 EXCEPT !.wire = wire]
      OBVIOUS
    <3> HIDE DEF s
    <3>2. IsRecord(s1) /\ s1.buffer = 0 /\ s1.finished = r.finished /\ s1.listening = r.listening
      BY <2>0 DEF IsRecord
    <3> HIDE DEF s1
    <3>3. IsRecord(s2) /\ s2.buffer = 0 /\ s2.finished = r.finished /\ s2.listening = r.listening
      BY <3>2 DEF IsRecord
    <3> HIDE DEF s2
    <3>4. IsRecord(s3) /\ s3.buffer = 0 /\ s3.finished = r.finished /\ s3.listening = r.listening
      BY <3>3 DEF IsRecord
    <3> HIDE DEF s3
    <3>5. /\ IsRecord(s4) /\ s4.headersWritten = TRUE
          /\ s4.buffer = 0 /\ s4.finished = r.finished /\ s4.listening = r.listening
      BY <3>4, SetHeadersWritten
    <3> HIDE DEF s4
    <3>6. /\ IsRecord(s5) /\ s5.headersWritten = TRUE
          /\ s5.buffer = 0 /\ s5.finished = r.finished /\ s5.listening = r.listening
      BY <3>5 DEF IsRecord
    <3> HIDE DEF s5
    <3> QED
      BY <3>1, <3>6 DEF IsRecord
  <2> HIDE DEF s
  <2> QED
    BY <1>1, <1>3, <2>1, <2>2, <2>3 DEF Leaves, EndOK, IsResponse
<1> QED
  BY <1>2, <1>3

\* An attribute of a response that is not finished is set: not one that says
\* whether the headers were sent, what was sent, or that the end was reached.
LEMMA SetBuffer ==
  ASSUME NEW r, IsRecord(r), NEW b
  PROVE  LET s == [r EXCEPT !.buffer = b]
         IN  /\ IsRecord(s) /\ s.headersWritten = r.headersWritten
             /\ s.finished = r.finished /\ s.wire = r.wire
BY DEF IsRecord

\* (Content-Length.)
LEMMA SetLength ==
  ASSUME NEW r, IsRecord(r), NEW b
  PROVE  LET s == [r EXCEPT !.length = b]
         IN  /\ IsRecord(s) /\ s.headersWritten = r.headersWritten
             /\ s.finished = r.finished /\ s.wire = r.wire
BY DEF IsRecord

\* (Content-Type.)
LEMMA SetTyped ==
  ASSUME NEW r, IsRecord(r), NEW b
  PROVE  LET s == [r EXCEPT !.typed = b]
         IN  /\ IsRecord(s) /\ s.headersWritten = r.headersWritten
             /\ s.finished = r.finished /\ s.wire = r.wire
BY DEF IsRecord

\* (The status.)
LEMMA SetAnyStatus ==
  ASSUME NEW r, IsRecord(r), NEW b
  PROVE  LET s == [r EXCEPT !.status = b]
         IN  /\ IsRecord(s) /\ s.headersWritten = r.headersWritten
             /\ s.finished = r.finished /\ s.wire = r.wire
BY DEF IsRecord

\* (Whether the connection calls on_connection_close.)
LEMMA SetListening ==
  ASSUME NEW r, IsRecord(r), NEW b
  PROVE  LET s == [r EXCEPT !.listening = b]
         IN  /\ IsRecord(s) /\ s.headersWritten = r.headersWritten /\ s.listening = b
             /\ s.finished = r.finished /\ s.wire = r.wire
BY DEF IsRecord

\* (Whether finish() was called.)
LEMMA SetFinished ==
  ASSUME NEW r, IsRecord(r), NEW b
  PROVE  LET s == [r EXCEPT !.finished = b]
         IN  /\ IsRecord(s) /\ s.headersWritten = r.headersWritten /\ s.listening = r.listening
             /\ s.finished = b /\ s.wire = r.wire /\ s.buffer = r.buffer
BY DEF IsRecord

\* Completing the headers sends nothing.
LEMMA ConcludeLeaves ==
  ASSUME NEW r, IsResponse(r), ~r.finished
  PROVE  LET s == Handler!Conclude(r)
         IN  IsResponse(s) /\ ~s.finished
<1> DEFINE hit == /\ r.status = "200" /\ request.method \in {"GET", "HEAD"}
                  /\ r.buffer \in request.etags
           empty == [r EXCEPT !.buffer = 0]
           s   == IF hit THEN [r EXCEPT !.buffer = 0, !.status = "304"] ELSE r
<1>1. \/ Handler!Conclude(r) = Handler!Raise(s)
      \/ Handler!Conclude(r) = [s EXCEPT !.length = {}, !.typed = FALSE]
      \/ Handler!Conclude(r) = [s EXCEPT !.length = {s.buffer}]
  <2> DEFINE t == s
  <2>1. Handler!Conclude(r) =
          CASE t.status = "304" /\ t.buffer > 0 -> Handler!Raise(t)
            [] t.status = "304" /\ t.buffer = 0 -> [t EXCEPT !.length = {}, !.typed = FALSE]
            [] OTHER -> [t EXCEPT !.length = {t.buffer}]
    BY DEF Handler!Conclude
  <2> HIDE DEF t
  <2>2. \/ Handler!Conclude(r) = Handler!Raise(t)
        \/ Handler!Conclude(r) = [t EXCEPT !.length = {}, !.typed = FALSE]
        \/ Handler!Conclude(r) = [t EXCEPT !.length = {t.buffer}]
    BY <2>1, Zenon
  <2> QED
    BY <2>2 DEF t
<1>2. IsRecord(s) /\ ~s.finished /\ s.wire = r.wire
  <2>1. CASE hit
    <3>1. IsRecord(empty) /\ empty.finished = r.finished /\ empty.wire = r.wire
      BY SetBuffer DEF IsResponse
    <3>2. s = [empty EXCEPT !.status = "304"]
      BY <2>1
    <3> HIDE DEF empty, s
    <3> QED
      BY <3>1, <3>2, SetAnyStatus
  <2>2. CASE ~hit
    BY <2>2 DEF IsResponse
  <2> QED
    BY <2>1, <2>2
<1> HIDE DEF s
<1>3. IsSent(s.wire)
  BY <1>2 DEF IsResponse
<1>4. CASE Handler!Conclude(r) = Handler!Raise(s)
  <2>1. IsResponse(s) /\ EndOK(s)
    BY <1>2, <1>3 DEF IsResponse, EndOK
  <2> QED
    BY <1>2, <1>4, <2>1, RaiseLeaves DEF Leaves
<1>5. CASE Handler!Conclude(r) = [s EXCEPT !.length = {}, !.typed = FALSE]
  <2> DEFINE no == FALSE
             t == [s EXCEPT !.length = {}]
             u == [t EXCEPT !.typed = no]
  <2>1. Handler!Conclude(r) = u
    BY <1>5
  <2>2. IsRecord(t) /\ t.finished = s.finished /\ t.wire = s.wire
    BY <1>2, SetLength
  <2> HIDE DEF no, t
  <2>3. IsRecord(u) /\ u.finished = s.finished /\ u.wire = s.wire
    BY <2>2, SetTyped
  <2> HIDE DEF u
  <2> QED
    BY <1>2, <1>3, <2>1, <2>3 DEF IsResponse
<1>6. CASE Handler!Conclude(r) = [s EXCEPT !.length = {s.buffer}]
  <2> DEFINE t == [s EXCEPT !.length = {s.buffer}]
  <2>1. IsRecord(t) /\ t.finished = s.finished /\ t.wire = s.wire
    BY <1>2, SetLength
  <2> HIDE DEF t
  <2>2. Handler!Conclude(r) = t
    BY <1>6 DEF t
  <2> QED
    BY <1>2, <1>3, <2>1, <2>2 DEF IsResponse
<1> QED
  BY <1>1, <1>4, <1>5, <1>6

\* finish() ends the response; on a finished one it fails.
LEMMA FinishLeaves ==
  ASSUME NEW r, IsResponse(r), EndOK(r), NEW n
  PROVE  Leaves(r, Handler!Finish(r, n))
<1> DEFINE w == Handler!Write(r, n)
           c == IF w.headersWritten THEN w ELSE Handler!Conclude(w)
           silent == [c EXCEPT !.listening = FALSE]
           sent == Handler!Flush(silent, TRUE)
           ended == [sent EXCEPT !.finished = TRUE]
<1>1. Handler!Finish(r, n) = IF r.finished \/ c.raised THEN Handler!Raise(c) ELSE ended
  BY DEF Handler!Finish
<1>2. Leaves(r, w) /\ w.finished = r.finished /\ w.headersWritten = r.headersWritten
  BY WriteLeaves
<1> HIDE DEF w
<1>3. Leaves(r, c) /\ (~r.finished => ~c.finished)
  <2>1. CASE w.headersWritten
    BY <1>2, <2>1
  <2>2. CASE ~w.headersWritten
    <3>1. ~r.finished
      BY <1>2, <2>2 DEF EndOK
    <3>2. IsResponse(w) /\ ~w.finished
      BY <1>2, <3>1 DEF Leaves
    <3>3. IsResponse(c) /\ ~c.finished
      BY <2>2, <3>2, ConcludeLeaves
    <3> QED
      BY <3>1, <3>3 DEF Leaves, EndOK
  <2> QED
    BY <2>1, <2>2
<1> HIDE DEF c
<1>4. CASE r.finished \/ c.raised
  <2>1. IsResponse(c) /\ EndOK(c)
    BY <1>3 DEF Leaves
  <2>2. Leaves(c, Handler!Raise(c))
    BY <2>1, RaiseLeaves
  <2> QED
    BY <1>1, <1>3, <1>4, <2>2, LeavesAgain
<1>5. CASE ~(r.finished \/ c.raised)
  <2> DEFINE no == FALSE
             yes == TRUE
  <2>1. IsRecord(c) /\ IsSent(c.wire)
    BY <1>3 DEF Leaves, IsResponse
  <2>2. silent = [c EXCEPT !.listening = no]
    OBVIOUS
  <2> HIDE DEF silent
  <2>3. /\ IsRecord(silent) /\ silent.listening = no
        /\ silent.finished = c.finished /\ silent.wire = c.wire
    <3> HIDE DEF no
    <3> QED
      BY <2>1, <2>2, SetListening
  <2>4. IsResponse(silent) /\ EndOK(silent) /\ ~silent.finished /\ ~silent.listening
    BY <1>3, <1>5, <2>1, <2>3 DEF IsResponse, EndOK
  <2>5. IsResponse(sent) /\ sent.headersWritten /\ sent.buffer = 0 /\ ~sent.listening
    BY <2>4, FlushLeaves DEF Leaves
  <2> HIDE DEF sent
  <2>6. ended = [sent EXCEPT !.finished = yes]
    OBVIOUS
  <2> HIDE DEF ended
  <2>7. /\ IsRecord(ended) /\ ended.headersWritten = sent.headersWritten
        /\ ended.listening = sent.listening /\ ended.wire = sent.wire
        /\ ended.buffer = sent.buffer
    <3> HIDE DEF yes
    <3> QED
      BY <2>5, <2>6, SetFinished DEF IsResponse
  <2> QED
    BY <1>1, <1>5, <2>5, <2>7 DEF Leaves, IsResponse, EndOK
<1> QED
  BY <1>4, <1>5

\* redirect() fails after the headers.
LEMMA RedirectLeaves ==
  ASSUME NEW r, IsResponse(r), EndOK(r)
  PROVE  Leaves(r, Handler!Redirect(r))
<1> DEFINE s == [r EXCEPT !.status = "302"]
<1>1. Handler!Redirect(r) = IF r.headersWritten THEN Handler!Raise(r) ELSE Handler!Finish(s, 0)
  BY DEF Handler!Redirect
<1>2. Leaves(r, s)
  BY SetStatus
<1> HIDE DEF s
<1>3. Leaves(s, Handler!Finish(s, 0))
  BY <1>2, FinishLeaves DEF Leaves
<1> QED
  BY <1>1, <1>2, <1>3, LeavesAgain, RaiseLeaves

\* send_error() leaves a finished response alone.
LEMMA SendErrorLeaves ==
  ASSUME NEW r, IsResponse(r), EndOK(r), NEW code
  PROVE  Leaves(r, Handler!SendError(r, code))
<1>1. CASE r.headersWritten
  <2>1. Handler!SendError(r, code) = IF r.finished THEN r ELSE Handler!Finish(r, 0)
    BY <1>1 DEF Handler!SendError
  <2>2. Leaves(r, r)
    BY DEF Leaves
  <2> QED
    BY <2>1, <2>2, FinishLeaves
<1>2. CASE ~r.headersWritten
  <2> DEFINE c == [Handler!Clear(r) EXCEPT !.status = code]
             f == Handler!Finish(c, 1)
             quiet == [f EXCEPT !.raised = FALSE]
             page == IF app.pageFails THEN Handler!Write(c, 1) ELSE quiet
  <2>0. ~r.finished
    BY <1>2 DEF EndOK
  <2>1. Handler!SendError(r, code) = IF page.finished THEN page ELSE Handler!Finish(page, 0)
    BY <1>2 DEF Handler!SendError
  <2>2. IsResponse(c) /\ ~c.finished
    <3> DEFINE yes == TRUE
               c1 == [r EXCEPT !.buffer = 0]
               c2 == [c1 EXCEPT !.status = "200"]
               c3 == [c2 EXCEPT !.length = {}]
               c4 == [c3 EXCEPT !.typed = yes]
    <3>1. c = [c4 EXCEPT !.status = code]
      BY DEF Handler!Clear
    <3> HIDE DEF yes, c
    <3>2. IsRecord(c1) /\ c1.finished = r.finished /\ c1.wire = r.wire
      BY SetBuffer DEF IsResponse
    <3> HIDE DEF c1
    <3>3. IsRecord(c2) /\ c2.finished = r.finished /\ c2.wire = r.wire
      BY <3>2, SetAnyStatus
    <3> HIDE DEF c2
    <3>4. IsRecord(c3) /\ c3.finished = r.finished /\ c3.wire = r.wire
      BY <3>3, SetLength
    <3> HIDE DEF c3
    <3>5. IsRecord(c4) /\ c4.finished = r.finished /\ c4.wire = r.wire
      BY <3>4, SetTyped
    <3> HIDE DEF c4
    <3>6. IsRecord(c) /\ c.finished = r.finished /\ c.wire = r.wire
      BY <3>1, <3>5, SetAnyStatus
    <3> QED
      BY <2>0, <3>6 DEF IsResponse
  <2> HIDE DEF c
  <2>3. IsResponse(page) /\ EndOK(page)
    <3>1. EndOK(c)
      BY <2>2 DEF EndOK
    <3>2. IsResponse(Handler!Write(c, 1)) /\ EndOK(Handler!Write(c, 1))
      BY <2>2, <3>1, WriteLeaves DEF Leaves
    <3>3. IsResponse(f) /\ EndOK(f)
      BY <2>2, <3>1, FinishLeaves DEF Leaves
    <3> DEFINE no == FALSE
    <3>4. quiet = [f EXCEPT !.raised = no]
      OBVIOUS
    <3> HIDE DEF no, f, quiet
    <3>5. IsResponse(quiet) /\ EndOK(quiet)
      BY <3>3, <3>4, SetRaised DEF Leaves
    <3> QED
      BY <3>2, <3>5
  <2> HIDE DEF page
  <2>4. IsResponse(Handler!Finish(page, 0)) /\ EndOK(Handler!Finish(page, 0))
    BY <2>3, FinishLeaves DEF Leaves
  <2> QED
    BY <2>0, <2>1, <2>3, <2>4 DEF Leaves
<1> QED
  BY <1>1, <1>2

\* The handling of an error, too.
LEMMA HandleExceptionLeaves ==
  ASSUME NEW r, IsResponse(r), EndOK(r), NEW code
  PROVE  Leaves(r, Handler!HandleException(r, code))
<1>1. Leaves(r, r)
  BY DEF Leaves
<1> QED
  BY <1>1, SendErrorLeaves DEF Handler!HandleException

\* An error that was caught is forgotten.
LEMMA QuietLeaves ==
  ASSUME NEW r, IsResponse(r), EndOK(r)
  PROVE  Leaves(r, Handler!Quiet(r))
<1> DEFINE no == FALSE
<1>1. Handler!Quiet(r) = [r EXCEPT !.raised = no]
  BY DEF Handler!Quiet
<1> HIDE DEF no
<1> QED
  BY <1>1, SetRaised

\* A step of the handler leaves the response as its calls do, ...
HandlerStep == Leaves(response, response')

\* and the handler hears of the connection's end only while it listens.
ToldStep == told' = told \/ response.listening

\* What handling an error leaves of what a call left.
LEMMA HandledLeaves ==
  ASSUME NEW r, NEW s, NEW e, Leaves(r, s)
  PROVE  /\ Leaves(r, Handler!Quiet(s))
         /\ Leaves(r, Handler!HandleException(s, e))
         /\ Leaves(r, Handler!HandleException(Handler!Quiet(s), e))
<1>1. Leaves(s, Handler!Quiet(s))
  BY QuietLeaves DEF Leaves
<1>2. Leaves(r, Handler!Quiet(s))
  BY <1>1, LeavesAgain
<1>3. ASSUME NEW t, Leaves(r, t)
      PROVE  Leaves(r, Handler!HandleException(t, e))
  <2>1. Leaves(t, Handler!HandleException(t, e))
    BY <1>3, HandleExceptionLeaves DEF Leaves
  <2> QED
    BY <1>3, <2>1, LeavesAgain
<1> QED
  BY <1>2, <1>3

\* An error escapes the code that runs, ...
LEMMA EscapesLeaves ==
  ASSUME NEW r, NEW e, Leaves(response, r), Handler!Escapes(r, e)
  PROVE  HandlerStep /\ told' = told
<1> DEFINE h == Handler!HandleException(Handler!Quiet(r), e)
           again == Handler!HandleException(Handler!Quiet(h), "500")
<1>1. Leaves(response, Handler!Quiet(r)) /\ Leaves(response, h)
  BY HandledLeaves
<1>2. told' = told
  BY DEF Handler!Escapes
<1>3. \/ response' = Handler!Quiet(r)
      \/ response' = Handler!Quiet(h)
      \/ response' = Handler!Quiet(again)
  BY DEF Handler!Escapes
<1> HIDE DEF h
<1>4. Leaves(response, Handler!Quiet(h)) /\ Leaves(response, again)
  BY <1>1, HandledLeaves
<1> HIDE DEF again
<1>5. Leaves(response, Handler!Quiet(again))
  BY <1>4, HandledLeaves
<1> QED
  BY <1>1, <1>2, <1>3, <1>4, <1>5 DEF HandlerStep

\* ... or is handled where the framework's own call made it.
LEMMA OwnCallLeaves ==
  ASSUME NEW r, NEW s, Leaves(r, s)
  PROVE  Leaves(r, Handler!Handled(s))
<1> DEFINE h == Handler!HandleException(Handler!Quiet(s), "500")
<1>1. Leaves(r, h) /\ Leaves(r, Handler!Quiet(s))
  BY HandledLeaves
<1>2. Handler!Handled(s) \in {Handler!Quiet(h), Handler!Quiet(s)}
  BY DEF Handler!Handled
<1> HIDE DEF h
<1>3. Leaves(r, Handler!Quiet(h))
  BY <1>1, HandledLeaves
<1> QED
  BY <1>1, <1>2, <1>3

LEMMA OnLoopLeaves ==
  ASSUME NEW r, Leaves(response, r), Handler!OnLoop(r)
  PROVE  HandlerStep
<1>1. response' = Handler!Handled(r)
  BY DEF Handler!OnLoop
<1> QED
  BY <1>1, OwnCallLeaves DEF HandlerStep

\* A call of the application.
LEMMA CallLeaves ==
  ASSUME NEW r, Leaves(response, r), Handler!Call(r)
  PROVE  HandlerStep /\ told' = told
<1>1. CASE r.raised
  BY <1>1, EscapesLeaves DEF Handler!Call
<1>2. CASE ~r.raised
  BY <1>2 DEF Handler!Call, HandlerStep
<1> QED
  BY <1>1, <1>2

\* prepare() is over and the method is entered, or turned away.
LEMMA EnterMethodLeaves ==
  ASSUME HandlerInv, Handler!EnterMethod
  PROVE  HandlerStep
<1>1. Leaves(response, response)
  BY DEF HandlerInv, Leaves
<1>2. CASE response' = response
  BY <1>1, <1>2 DEF HandlerStep
<1>3. CASE \E r \in {Handler!Authenticated(response), Handler!Slash(response)} : Handler!OnLoop(r)
  <2>1. PICK r \in {Handler!Authenticated(response), Handler!Slash(response)} : Handler!OnLoop(r)
    BY <1>3
  <2>2. r \in {Handler!Redirect(response), Handler!HandleException(response, "403"),
               Handler!HandleException(response, "404")}
    BY <2>1 DEF Handler!Authenticated, Handler!Slash
  <2>3. Leaves(response, r)
    BY <2>2, <1>1, HandledLeaves, RedirectLeaves DEF HandlerInv
  <2> QED
    BY <2>1, <2>3, OnLoopLeaves
<1> QED
  BY <1>2, <1>3 DEF Handler!EnterMethod

\* A future of the handler is done.
LEMMA FutureDoneLeaves ==
  ASSUME HandlerInv, Handler!FutureDone
  PROVE  HandlerStep /\ told' = told
<1> DEFINE c == IF app.asynchronous /\ awaiting = "method"
                  THEN Handler!FutureComplete(response, outcome) ELSE response
           r == Handler!Handled(c)
           s == Handler!HandleException(r, IF outcome = "value" THEN "500" ELSE outcome)
           f == IF Handler!ExecuteFinish THEN Handler!Finish(response, 0) ELSE c
           error == Handler!HandleException(response, outcome)
<1>1. told' = told
  BY DEF Handler!FutureDone
<1>2. Handler!EnterMethod \/ Handler!OnLoop(f) \/ response' = Handler!Quiet(s)
  BY DEF Handler!FutureDone
<1>3. Leaves(response, response)
  BY DEF HandlerInv, Leaves
<1>4. Leaves(response, error) /\ Leaves(response, Handler!Finish(response, 0))
  BY <1>3, HandledLeaves, FinishLeaves DEF HandlerInv
<1>5. c \in {Handler!Quiet(error), response, Handler!Finish(response, 0)}
  BY DEF Handler!FutureComplete
<1> HIDE DEF c, error
<1>6. Leaves(response, Handler!Quiet(error))
  BY <1>4, HandledLeaves
<1>7. Leaves(response, c) /\ Leaves(response, f)
  BY <1>3, <1>4, <1>5, <1>6
<1>8. Leaves(response, r)
  BY <1>7, OwnCallLeaves
<1> HIDE DEF r, f
<1>9. Leaves(response, s)
  BY <1>8, HandledLeaves
<1> HIDE DEF s
<1> QED
  BY <1>1, <1>2, <1>7, <1>9, EnterMethodLeaves, OnLoopLeaves, HandledLeaves DEF HandlerStep

\* Every step of the handler.
LEMMA HandlerLeaves ==
  ASSUME HandlerInv, Handler!Next
  PROVE  HandlerStep /\ ToldStep
<1>0. Leaves(response, response)
  BY DEF HandlerInv, Leaves
<1>1. CASE Handler!Execute
  <2> DEFINE code == IF request.method = "TRACE" THEN "405" ELSE "403"
  <2>1. response' \in {response, Handler!HandleException(response, code)} /\ told' = told
    BY <1>1 DEF Handler!Execute
  <2> HIDE DEF code
  <2> QED
    BY <1>0, <2>1, HandledLeaves DEF HandlerStep, ToldStep
<1>2. CASE \E r \in {Handler!Write(response, 1), Handler!Flush(response, FALSE),
                     Handler!Redirect(response)} : Handler!Call(r)
  <2>1. Leaves(response, Handler!Write(response, 1))
    BY WriteLeaves DEF HandlerInv
  <2>2. Leaves(response, Handler!Flush(response, FALSE))
    BY FlushLeaves DEF HandlerInv
  <2>3. Leaves(response, Handler!Redirect(response))
    BY RedirectLeaves DEF HandlerInv
  <2> QED
    BY <1>2, <2>1, <2>2, <2>3, CallLeaves DEF ToldStep
<1>3. CASE Handler!AppFinish
  <2>1. PICK n \in {0, 1} : Handler!Call(Handler!Finish(response, n))
    BY <1>3 DEF Handler!AppFinish
  <2>2. Leaves(response, Handler!Finish(response, n))
    BY FinishLeaves DEF HandlerInv
  <2> QED
    BY <2>1, <2>2, CallLeaves DEF ToldStep
<1>4. CASE Handler!AppSendError
  <2>1. PICK e \in Errors : Handler!Call(Handler!SendError(response, e))
    BY <1>4 DEF Handler!AppSendError
  <2>2. Leaves(response, Handler!SendError(response, e))
    BY SendErrorLeaves DEF HandlerInv
  <2> QED
    BY <2>1, <2>2, CallLeaves DEF ToldStep
<1>5. CASE Handler!AppNotModified
  <2> DEFINE s == [response EXCEPT !.status = "304"]
  <2>1. Leaves(response, s)
    BY SetStatus DEF HandlerInv
  <2> QED
    BY <1>5, <2>1, CallLeaves DEF Handler!AppNotModified, ToldStep
<1>6. CASE Handler!AppFails \/ Handler!ReturnsValue
  <2>1. \E e : Handler!Escapes(response, e)
    BY <1>6 DEF Handler!AppFails, Handler!ReturnsValue
  <2> QED
    BY <1>0, <2>1, EscapesLeaves DEF ToldStep
<1>7. CASE Handler!PrepareReturns
  <2>1. Handler!EnterMethod /\ told' = told
    BY <1>7 DEF Handler!PrepareReturns
  <2> QED
    BY <2>1, EnterMethodLeaves DEF ToldStep
<1>8. CASE Handler!MethodReturns
  <2>1. (Handler!OnLoop(Handler!Finish(response, 0)) \/ response' = response) /\ told' = told
    BY <1>8 DEF Handler!MethodReturns
  <2>2. Leaves(response, Handler!Finish(response, 0))
    BY FinishLeaves DEF HandlerInv
  <2> QED
    BY <1>0, <2>1, <2>2, OnLoopLeaves DEF ToldStep, HandlerStep
<1>9. CASE Handler!FutureDone
  BY <1>9, FutureDoneLeaves DEF ToldStep
<1>10. CASE response' = response /\ (told' = told \/ response.listening)
  BY <1>0, <1>10 DEF HandlerStep, ToldStep
<1>11. Handler!ConnectionCloses => response' = response /\ (told' = told \/ response.listening)
  BY DEF Handler!ConnectionCloses
<1>12. Handler!AppSchedule \/ Handler!ReturnsFuture \/ Handler!CoroutineReturns
         \/ Handler!CallbackReturns \/ Handler!CoroutineRuns \/ Handler!CallbackRuns
         => response' = response /\ told' = told
  BY DEF Handler!AppSchedule, Handler!ReturnsFuture, Handler!CoroutineReturns,
         Handler!CallbackReturns, Handler!CoroutineRuns, Handler!CallbackRuns
<1>13. Handler!AppWrite \/ Handler!AppFlush \/ Handler!AppRedirect =>
         \E r \in {Handler!Write(response, 1), Handler!Flush(response, FALSE),
                   Handler!Redirect(response)} : Handler!Call(r)
  BY DEF Handler!AppWrite, Handler!AppFlush, Handler!AppRedirect
<1> QED
  BY <1>1, <1>2, <1>3, <1>4, <1>5, <1>6, <1>7, <1>8, <1>9, <1>10, <1>11, <1>12, <1>13
     DEF Handler!Next, Handler!Returns

\* A request begins unanswered.
LEMMA HandlerInit ==
  ASSUME Handler!Init
  PROVE  HandlerInv
<1>1. \E g, c : response = [headersWritten |-> FALSE, finished |-> FALSE, buffer |-> 0,
                 status |-> "200", length |-> {}, typed |-> TRUE,
                 gzipping |-> g, chunking |-> c,
                 wire |-> <<>>, listening |-> TRUE, raised |-> FALSE]
  BY DEF Handler!Init
<1>2. ASSUME NEW g, NEW c, NEW no, NEW yes,
             response = [headersWritten |-> no, finished |-> no, buffer |-> 0,
                 status |-> "200", length |-> {}, typed |-> yes,
                 gzipping |-> g, chunking |-> c,
                 wire |-> <<>>, listening |-> yes, raised |-> no]
      PROVE  IsRecord(response) /\ response.wire = <<>> /\ response.finished = no
  BY <1>2 DEF IsRecord
<1>3. IsRecord(response) /\ response.wire = <<>> /\ response.finished = FALSE
  BY <1>1, <1>2
<1> QED
  BY <1>3, OneSent DEF HandlerInv, IsResponse, EndOK

\* Nothing a handler, its callbacks or its futures still do after finish()
\* (web.py:765-818) sends a byte, and the connection does not call it when it
\* is lost: for every sequence of calls, errors and interleavings.
THEOREM EndedStaysEndedHolds == Spec => EndedStaysEnded
<1>1. Init => HandlerInv
  <2> SUFFICES ASSUME Init PROVE HandlerInv
    OBVIOUS
  <2>1. Handler!Init
    BY DEF Init
  <2> QED
    BY <2>1, HandlerInit
<1>2. HandlerInv /\ [Next]_vars =>
        /\ HandlerInv'
        /\ [response.finished => response'.wire = response.wire /\ told' = told]_(Handler!vars)
  <2> SUFFICES ASSUME HandlerInv, [Next]_vars
               PROVE  /\ HandlerInv'
                      /\ response.finished => response'.wire = response.wire /\ told' = told
    OBVIOUS
  <2>1. CASE Handler!Next
    <3>1. HandlerStep /\ ToldStep
      BY <2>1, HandlerLeaves
    <3> QED
      BY <3>1 DEF HandlerStep, ToldStep, Leaves, HandlerInv, EndOK
  <2>2. CASE UNCHANGED handling
    <3>1. response' = response /\ told' = told
      BY <2>2 DEF handling
    <3> QED
      BY <3>1 DEF HandlerInv
  <2> QED
    BY <2>1, <2>2 DEF Next, vars
<1> QED
  BY <1>1, <1>2, PTL DEF Spec, EndedStaysEnded, Handler!EndedStaysEnded

-----------------------------------------------------------------------------
(* The wire of a response.                                                 *)

\* The attributes of a response by their names.
Attributes == {"headersWritten", "finished", "buffer", "status", "length", "typed",
               "gzipping", "chunking", "wire", "listening", "raised"}

Record(r) == r = [a \in Attributes |-> r[a]]

\* r and s differ in the attributes A at most.
SameBut(r, s, A) == Record(s) /\ \A a \in Attributes \ A : s[a] = r[a]

\* Both ways to say that a response has its attributes say the same.
LEMMA RecordIs ==
  ASSUME NEW r
  PROVE  Record(r) <=> IsRecord(r)
BY DEF Record, IsRecord, Attributes

\* Setting one attribute leaves the others as they were.
LEMMA SetOne ==
  ASSUME NEW r, Record(r), NEW a \in Attributes, NEW v
  PROVE  LET s == [r EXCEPT ![a] = v]
         IN  SameBut(r, s, {a}) /\ s[a] = v
BY DEF Record, SameBut

\* What flush() decides on: the head, and the size and the coding of the chunk.
Sent(r, finishing) ==
  LET gzip    == Handler!Compressing(r, finishing)
      size    == IF gzip THEN r.buffer + 1 ELSE r.buffer
      length  == IF gzip /\ r.length # {} THEN {size} ELSE r.length
      chunked == Handler!Chunking([r EXCEPT !.length = length])
      head    == [kind |-> "head", n |-> 0, status |-> r.status, length |-> length,
                  chunked |-> chunked, complete |-> finishing]
  IN [head |-> head, size |-> size, chunked |-> chunked, length |-> length, gzip |-> gzip]

\* s is what flush() makes of r, with what it decided in x.
Flushes(r, s, x, finishing) ==
  /\ SameBut(r, s, {"buffer", "length", "gzipping", "headersWritten", "chunking", "wire"})
  /\ s.buffer = 0 /\ s.length = x.length /\ s.headersWritten = TRUE
  /\ s.chunking = IF ~r.headersWritten /\ r.status = "304" THEN r.chunking ELSE x.chunked
  /\ s.wire = r.wire \o (IF r.headersWritten THEN <<>> ELSE <<x.head>>)
                     \o (IF request.method = "HEAD" THEN <<>>
                         ELSE Handler!Framed(x.chunked, x.size, finishing))

\* What flush() makes of a response.
LEMMA FlushIs ==
  ASSUME NEW r, Record(r), NEW finishing, ~(r.finished /\ r.gzipping)
  PROVE  Flushes(r, Handler!Flush(r, finishing), Sent(r, finishing), finishing)
<1> DEFINE gzip    == Handler!Compressing(r, finishing)
           size    == IF gzip THEN r.buffer + 1 ELSE r.buffer
           length  == IF gzip /\ r.length # {} THEN {size} ELSE r.length
           chunked == Handler!Chunking([r EXCEPT !.length = length])
           head    == [kind |-> "head", n |-> 0, status |-> r.status, length |-> length,
                       chunked |-> chunked, complete |-> finishing]
           wire    == r.wire \o (IF r.headersWritten THEN <<>> ELSE <<head>>)
                        \o (IF request.method = "HEAD" THEN <<>>
                            ELSE Handler!Framed(chunked, size, finishing))
           chunking == IF ~r.headersWritten /\ r.status = "304" THEN r.chunking ELSE chunked
           yes == TRUE
           s1 == [r EXCEPT !.buffer = 0]
           s2 == [s1 EXCEPT !.length = length]
           s3 == [s2 EXCEPT !.gzipping = gzip]
           s4 == [s3 EXCEPT !.headersWritten = yes]
           s5 == [s4 EXCEPT !.chunking = chunking]
           s6 == [s5 EXCEPT !.wire = wire]
<1>1. Handler!Flush(r, finishing) = s6
  BY DEF Handler!Flush
<1>2. /\ Sent(r, finishing).head = head /\ Sent(r, finishing).size = size
      /\ Sent(r, finishing).chunked = chunked /\ Sent(r, finishing).length = length
  <2> HIDE DEF head, size, chunked, length, gzip
  <2>1. Sent(r, finishing) = [head |-> head, size |-> size, chunked |-> chunked,
                              length |-> length, gzip |-> gzip]
    BY DEF Sent, head, size, chunked, length, gzip
  <2> QED
    BY <2>1
<1> HIDE DEF gzip, length, chunking, wire, yes
<1>3. SameBut(r, s1, {"buffer"}) /\ s1.buffer = 0
  BY SetOne DEF Attributes
<1> HIDE DEF s1
<1>4. SameBut(s1, s2, {"length"}) /\ s2.length = length
  BY SMTT(30), <1>3, SetOne DEF Attributes, SameBut
<1> HIDE DEF s2
<1>5. SameBut(s2, s3, {"gzipping"})
  BY <1>4, SetOne DEF Attributes, SameBut
<1> HIDE DEF s3
<1>6. SameBut(s3, s4, {"headersWritten"}) /\ s4.headersWritten = yes
  BY <1>5, SetOne DEF Attributes, SameBut
<1> HIDE DEF s4
<1>7. SameBut(s4, s5, {"chunking"}) /\ s5.chunking = chunking
  BY <1>6, SetOne DEF Attributes, SameBut
<1> HIDE DEF s5
<1>8. SameBut(s5, s6, {"wire"}) /\ s6.wire = wire
  BY <1>7, SetOne DEF Attributes, SameBut
<1> HIDE DEF s6
<1>9. /\ SameBut(r, s6, {"buffer", "length", "gzipping", "headersWritten", "chunking", "wire"})
      /\ s6.buffer = 0 /\ s6.length = length /\ s6.headersWritten = yes
      /\ s6.chunking = chunking /\ s6.wire = wire
  BY <1>3, <1>4, <1>5, <1>6, <1>7, <1>8 DEF SameBut, Attributes
<1>10. chunking = IF ~r.headersWritten /\ r.status = "304" THEN r.chunking
                  ELSE Sent(r, finishing).chunked
  BY <1>2 DEF chunking
<1>11. wire = r.wire \o (IF r.headersWritten THEN <<>> ELSE <<Sent(r, finishing).head>>)
                        \o (IF request.method = "HEAD" THEN <<>>
                            ELSE Handler!Framed(Sent(r, finishing).chunked, Sent(r, finishing).size, finishing))
  BY <1>2 DEF wire
<1> HIDE DEF size, head, chunked
<1> QED
  BY <1>1, <1>2, <1>9, <1>10, <1>11 DEF yes, Flushes

\* The sum of one piece is its size, the sum of none is 0.
LEMMA Sums ==
  /\ Handler!Sum(<<>>) = 0
  /\ \A x : x.n \in Nat => Handler!Sum(<<x>>) = x.n
<1>1. Handler!Sum(<<>>) = 0
  <2> DEFINE P(iter) == iter = [t \in SUBSET {} |->
                 IF t = {} THEN 0
                 ELSE iter[t \ {Handler!Max(t)}] + <<>>[Handler!Max(t)].n]
             f == [t \in SUBSET {} |-> 0]
             iter == CHOOSE g : P(g)
  <2>1. Handler!Sum(<<>>) = iter[{}]
    <3>1. DOMAIN <<>> = {}
      OBVIOUS
    <3> QED
      BY <3>1 DEF Handler!Sum, Handler!FoldLeft, Handler!MapThenFoldSet
  <2>2. P(f)
    <3>1. \A t \in SUBSET {} : t = {}
      OBVIOUS
    <3> QED
      BY <3>1
  <2>3. P(iter)
    BY <2>2
  <2> HIDE DEF iter
  <2> QED
    BY <2>1, <2>3
<1>2. ASSUME NEW x, x.n \in Nat
      PROVE  Handler!Sum(<<x>>) = x.n
  <2> DEFINE P(iter) == iter = [t \in SUBSET {1} |->
                 IF t = {} THEN 0
                 ELSE iter[t \ {Handler!Max(t)}] + <<x>>[Handler!Max(t)].n]
             f == [t \in SUBSET {1} |-> IF t = {} THEN 0 ELSE x.n]
             iter == CHOOSE g : P(g)
  <2>1. Handler!Sum(<<x>>) = iter[{1}]
    <3>1. DOMAIN <<x>> = {1}
      OBVIOUS
    <3> QED
      BY <3>1 DEF Handler!Sum, Handler!FoldLeft, Handler!MapThenFoldSet
  <2>2. Handler!Max({1}) = 1 /\ {1} \ {1} = {} /\ <<x>>[1] = x
    BY DEF Handler!Max
  <2>3. P(f)
    <3>1. ASSUME NEW t \in SUBSET {1}
          PROVE  f[t] = IF t = {} THEN 0
                        ELSE f[t \ {Handler!Max(t)}] + <<x>>[Handler!Max(t)].n
      <4>1. CASE t = {}
        BY <4>1
      <4>2. CASE t # {}
        <5>1. t = {1}
          BY <4>2
        <5>2. f[{}] = 0 /\ f[{1}] = x.n
          OBVIOUS
        <5>3. t \ {Handler!Max(t)} = {} /\ <<x>>[Handler!Max(t)] = x
          <6> HIDE DEF f
          <6> QED
            BY <2>2, <5>1
        <5> HIDE DEF f
        <5> QED
          BY <1>2, <4>2, <5>1, <5>2, <5>3
      <4> QED
        BY <4>1, <4>2
    <3>2. f = [t \in SUBSET {1} |-> f[t]]
      OBVIOUS
    <3> HIDE DEF f
    <3> QED
      BY <3>1, <3>2
  <2>4. P(iter)
    BY <2>3
  <2> HIDE DEF iter
  <2>5. iter[{}] = 0
    BY <2>4
  <2>6. iter[{1}] = iter[{1} \ {Handler!Max({1})}] + <<x>>[Handler!Max({1})].n
    BY <2>4
  <2> QED
    BY <1>2, <2>1, <2>2, <2>5, <2>6
<1> QED
  BY <1>1, <1>2

\* What a client can make of a head and what follows it, as the property has it.
Sound(q, head, rest, finished) ==
  /\ head.kind = "head" /\ \A i \in DOMAIN rest : rest[i].kind # "head"
  /\ (q.method = "HEAD" \/ (head.status = "304" /\ head.complete)) => rest = <<>>
  /\ q.method # "HEAD" /\ head.status # "304" =>
       IF head.chunked
         THEN /\ head.length = {} /\ (finished => rest # <<>>)
              /\ \A i \in DOMAIN rest :
                   rest[i].kind = IF finished /\ i = Len(rest) THEN "last" ELSE "chunk"
         ELSE /\ \A i \in DOMAIN rest : rest[i].kind = "raw"
              /\ \A n \in head.length : finished => Handler!Sum(rest) = n
              /\ head.length = {} => q.client = "http10"

\* The property of one wire.
Framing(q, wire, finished) ==
  /\ finished => wire # <<>>
  /\ wire # <<>> => Sound(q, Head(wire), Tail(wire), finished)

\* The property, in the terms of the lemmas.
LEMMA FramingIs ==
  ResponsesAreFramed <=> Framing(request, response.wire, response.finished)
BY DEF ResponsesAreFramed, Handler!ResponsesAreFramed, Framing, Sound

\* Before the headers.
Unsent(q, r) ==
  /\ r.wire = <<>> /\ ~r.headersWritten /\ ~r.finished /\ r.length = {}
  /\ r.chunking <=> q.client # "http10"

\* What was sent before the end: a head that declares no length, and a body of
\* which nothing says that it is complete.
Partial(q, head, rest, chunking) ==
  /\ head.kind = "head" /\ ~head.complete /\ head.length = {}
  /\ \A i \in DOMAIN rest : rest[i].kind \in {"chunk", "raw"}
  /\ q.method = "HEAD" => rest = <<>>
  /\ q.method # "HEAD" /\ head.status # "304" =>
       /\ head.chunked <=> chunking
       /\ \A i \in DOMAIN rest : rest[i].kind = IF chunking THEN "chunk" ELSE "raw"
       /\ ~chunking => q.client = "http10"

\* Between the headers and the end, ...
Streaming(q, r) ==
  /\ r.headersWritten /\ ~r.finished
  /\ \E head, rest : /\ IsSent(rest) /\ r.wire = <<head>> \o rest
                     /\ Partial(q, head, rest, r.chunking)

\* ... and after it.
Over(q, r) == r.finished /\ Framing(q, r.wire, TRUE)

\* A response is framed so far, and whatever is called next can go on from it.
Framable(q, r) ==
  /\ IsResponse(r) /\ EndOK(r) /\ r.buffer \in Nat
  /\ Unsent(q, r) \/ Streaming(q, r) \/ Over(q, r)

\* The pieces of a chunk.
LEMMA FramedIs ==
  ASSUME NEW chunked, NEW n \in Nat, NEW finishing \in BOOLEAN
  PROVE  LET a == Handler!Item(IF chunked THEN "chunk" ELSE "raw", n)
             z == Handler!Item("last", 0)
         IN  Handler!Framed(chunked, n, finishing) =
               IF chunked /\ finishing THEN IF n > 0 THEN <<a, z>> ELSE <<z>>
               ELSE IF n > 0 THEN <<a>> ELSE <<>>
<1> DEFINE a == Handler!Item(IF chunked THEN "chunk" ELSE "raw", n)
           z == Handler!Item("last", 0)
<1>1. Handler!Framed(chunked, n, finishing) =
        (IF n > 0 THEN <<a>> ELSE <<>>) \o (IF chunked /\ finishing THEN <<z>> ELSE <<>>)
  BY DEF Handler!Framed
<1> HIDE DEF a, z
<1>2. <<a>> \o <<z>> = <<a, z>> /\ <<>> \o <<z>> = <<z>> /\ <<a>> \o <<>> = <<a>>
      /\ <<>> \o <<>> = <<>>
  <2>1. IsSent(<<>>) /\ IsSent(<<a>>)
    BY OneSent
  <2>2. <<a>> \o <<>> = <<a>> /\ <<>> \o <<>> = <<>>
    BY <2>1, NothingSent
  <2>3. <<a>> \in Seq({a, z}) /\ <<z>> \in Seq({a, z}) /\ <<>> \in Seq({a, z})
    OBVIOUS
  <2>4. <<a>> \o <<z>> = <<a, z>>
    <3> DEFINE u == <<a>> \o <<z>>
               v == <<a, z>>
    <3>1. u \in Seq({a, z}) /\ Len(u) = 2 /\ u[1] = a /\ u[2] = z
      BY <2>3
    <3>2. v \in Seq({a, z}) /\ Len(v) = 2 /\ v[1] = a /\ v[2] = z
      OBVIOUS
    <3> HIDE DEF u, v
    <3>3. DOMAIN u = 1 .. 2 /\ DOMAIN v = 1 .. 2
      BY <3>1, <3>2
    <3>4. \A i \in 1 .. 2 : u[i] = v[i]
      <4>1. \A i \in 1 .. 2 : i = 1 \/ i = 2
        OBVIOUS
      <4> QED
        BY <3>1, <3>2, <4>1
    <3>5. u = [i \in 1 .. 2 |-> u[i]] /\ v = [i \in 1 .. 2 |-> v[i]]
      BY <3>1, <3>2, <3>3
    <3> QED
      BY <3>4, <3>5 DEF u, v
  <2>5. <<>> \o <<z>> = <<z>>
    BY <2>3
  <2> QED
    BY <2>2, <2>4, <2>5
<1> QED
  BY <1>1, <1>2 DEF a, z

\* A head and what follows it are told apart again.
LEMMA HeadAndBody ==
  ASSUME NEW head, NEW rest, IsSent(rest)
  PROVE  LET w == <<head>> \o rest
         IN  /\ w # <<>> /\ Head(w) = head /\ Tail(w) = rest
             /\ \A more : IsSent(more) => w \o more = <<head>> \o (rest \o more)
<1>1. PICK P : rest \in Seq(P)
  BY DEF IsSent
<1>2. <<head>> \in Seq(P \cup {head}) /\ rest \in Seq(P \cup {head})
  BY <1>1
<1> DEFINE w == <<head>> \o rest
<1>3. w \in Seq(P \cup {head}) /\ Len(w) = 1 + Len(rest) /\ w[1] = head
      /\ \A i \in 1 .. Len(rest) : w[i + 1] = rest[i]
  BY <1>2
<1>4. w # <<>> /\ Head(w) = head
  BY <1>3
<1>5. Tail(w) = rest
  <2> HIDE DEF w
  <2>1. Tail(w) \in Seq(P \cup {head}) /\ Len(Tail(w)) = Len(rest)
        /\ \A i \in 1 .. Len(rest) : Tail(w)[i] = w[i + 1]
    BY <1>2, <1>3, <1>4
  <2> QED
    BY <1>2, <1>3, <2>1
<1>6. ASSUME NEW more, IsSent(more)
      PROVE  w \o more = <<head>> \o (rest \o more)
  <2>1. PICK Q : more \in Seq(Q)
    BY <1>6 DEF IsSent
  <2> DEFINE R == P \cup Q \cup {head}
  <2>2. <<head>> \in Seq(R) /\ rest \in Seq(R) /\ more \in Seq(R)
    BY <1>1, <2>1
  <2> HIDE DEF R
  <2> QED
    BY <2>2
<1> QED
  BY <1>4, <1>5, <1>6

\* The length and the transfer coding that a flush decides on.
LEMMA SentIs ==
  ASSUME NEW r, Record(r), r.buffer \in Nat, NEW finishing
  PROVE  LET x == Sent(r, finishing)
             gzip == Handler!Compressing(r, finishing)
         IN  /\ x.size \in Nat /\ (~gzip => x.size = r.buffer)
             /\ r.length = {} => x.length = {}
             /\ r.length = {r.buffer} => x.length = {x.size}
             /\ x.head.kind = "head" /\ x.head.status = r.status /\ x.head.length = x.length
             /\ x.head.chunked = x.chunked /\ x.head.complete = finishing
             /\ x.chunked <=> /\ r.chunking
                              /\ r.headersWritten \/ (r.status # "304" /\ x.length = {})
<1> DEFINE gzip    == Handler!Compressing(r, finishing)
           size    == IF gzip THEN r.buffer + 1 ELSE r.buffer
           length  == IF gzip /\ r.length # {} THEN {size} ELSE r.length
           long    == [r EXCEPT !.length = length]
           chunked == Handler!Chunking(long)
           head    == [kind |-> "head", n |-> 0, status |-> r.status, length |-> length,
                       chunked |-> chunked, complete |-> finishing]
<1>1. /\ Sent(r, finishing).head = head /\ Sent(r, finishing).size = size
      /\ Sent(r, finishing).chunked = chunked /\ Sent(r, finishing).length = length
  <2> HIDE DEF head, size, chunked, length, gzip
  <2>1. Sent(r, finishing) = [head |-> head, size |-> size, chunked |-> chunked,
                              length |-> length, gzip |-> gzip]
    BY DEF Sent, head, size, chunked, length, gzip, long
  <2> QED
    BY <2>1
<1>2. size \in Nat /\ (~gzip => size = r.buffer)
  <2> HIDE DEF gzip
  <2> QED
    OBVIOUS
<1>3. /\ r.length = {} => length = {}
      /\ r.length = {r.buffer} => length = {size}
  <2> HIDE DEF gzip
  <2> QED
    OBVIOUS
<1>4. chunked <=> r.chunking /\ (r.headersWritten \/ (r.status # "304" /\ length = {}))
  <2> HIDE DEF length, size
  <2>1. SameBut(r, long, {"length"}) /\ long.length = length
    BY SetOne DEF Attributes
  <2> HIDE DEF long
  <2> QED
    BY <2>1 DEF Handler!Chunking, SameBut, Attributes
<1>5. /\ head.kind = "head" /\ head.status = r.status /\ head.length = length
      /\ head.chunked = chunked /\ head.complete = finishing
  <2> HIDE DEF chunked, length
  <2> QED
    OBVIOUS
<1> HIDE DEF size, length, chunked, head, gzip
<1> QED
  BY <1>1, <1>2, <1>3, <1>4, <1>5 DEF gzip

\* A flush in the middle: nothing that it sends says that the body is complete.
LEMMA PartialGrows ==
  ASSUME NEW q, NEW head, NEW rest, IsSent(rest), NEW chunking, NEW n \in Nat,
         Partial(q, head, rest, chunking), q.method # "HEAD"
  PROVE  LET more == rest \o Handler!Framed(chunking, n, FALSE)
         IN  IsSent(more) /\ Partial(q, head, more, chunking)
<1> DEFINE a == Handler!Item(IF chunking THEN "chunk" ELSE "raw", n)
           f == Handler!Framed(chunking, n, FALSE)
           more == rest \o f
<1>1. f = IF n > 0 THEN <<a>> ELSE <<>>
  BY FramedIs
<1>2. a.kind = IF chunking THEN "chunk" ELSE "raw"
  BY DEF Handler!Item
<1> HIDE DEF a, f
<1>3. IsSent(more)
  BY <1>1, OneSent, SentTogether
<1>4. ASSUME NEW i \in DOMAIN more
      PROVE  (i \in DOMAIN rest /\ more[i] = rest[i]) \/ more[i] = a
  <2>1. PICK P : rest \in Seq(P)
    BY DEF IsSent
  <2>2. rest \in Seq(P \cup {a}) /\ f \in Seq(P \cup {a})
    <3>1. <<a>> \in Seq(P \cup {a}) /\ <<>> \in Seq(P \cup {a})
      OBVIOUS
    <3>2. rest \in Seq(P \cup {a})
      BY <2>1
    <3>3. f \in Seq(P \cup {a})
      BY <1>1, <3>1, Zenon
    <3> QED
      BY <3>2, <3>3
  <2>3. /\ Len(more) = Len(rest) + Len(f)
        /\ \A j \in 1 .. Len(more) : more[j] = IF j <= Len(rest) THEN rest[j]
                                               ELSE f[j - Len(rest)]
        /\ DOMAIN more = 1 .. Len(more) /\ DOMAIN rest = 1 .. Len(rest)
    BY <2>2
  <2>4. Len(f) \in {0, 1} /\ (Len(f) = 1 => f[1] = a)
    BY <1>1
  <2> HIDE DEF more
  <2>5. Len(rest) \in Nat
    BY <2>1
  <2> QED
    BY <1>4, <2>3, <2>4, <2>5
<1> HIDE DEF more
<1> QED
  BY <1>2, <1>3, <1>4 DEF Partial, more, f

\* The last flush of a response that was begun completes its body.
LEMMA PartialEnds ==
  ASSUME NEW q, NEW head, NEW rest, IsSent(rest), NEW chunking, NEW n \in Nat,
         Partial(q, head, rest, chunking), q.method # "HEAD"
  PROVE  Framing(q, <<head>> \o (rest \o Handler!Framed(chunking, n, TRUE)), TRUE)
<1> DEFINE a == Handler!Item(IF chunking THEN "chunk" ELSE "raw", n)
           z == Handler!Item("last", 0)
           f == Handler!Framed(chunking, n, TRUE)
           more == rest \o f
           wire == <<head>> \o more
<1>1. f = IF chunking THEN IF n > 0 THEN <<a, z>> ELSE <<z>>
          ELSE IF n > 0 THEN <<a>> ELSE <<>>
  BY FramedIs
<1>2. (a.kind = IF chunking THEN "chunk" ELSE "raw") /\ z.kind = "last"
  BY DEF Handler!Item
<1> HIDE DEF a, z, f
<1>3. PICK P : rest \in Seq(P)
  BY DEF IsSent
<1>4. rest \in Seq(P \cup {a, z}) /\ f \in Seq(P \cup {a, z})
  <2>1. <<a, z>> \in Seq(P \cup {a, z}) /\ <<z>> \in Seq(P \cup {a, z})
        /\ <<a>> \in Seq(P \cup {a, z}) /\ <<>> \in Seq(P \cup {a, z})
    OBVIOUS
  <2>2. rest \in Seq(P \cup {a, z})
    BY <1>3
  <2>3. f \in Seq(P \cup {a, z})
    BY <1>1, <2>1, Zenon
  <2> QED
    BY <2>2, <2>3
<1>5. /\ more \in Seq(P \cup {a, z}) /\ Len(more) = Len(rest) + Len(f)
      /\ \A j \in 1 .. Len(more) : more[j] = IF j <= Len(rest) THEN rest[j]
                                             ELSE f[j - Len(rest)]
  BY <1>4
<1>6. IsSent(more) /\ DOMAIN more = 1 .. Len(more) /\ DOMAIN rest = 1 .. Len(rest)
      /\ Len(rest) \in Nat
  BY <1>4, <1>5 DEF IsSent
<1> HIDE DEF more
<1>7. wire # <<>> /\ Head(wire) = head /\ Tail(wire) = more
  BY <1>6, HeadAndBody
<1> HIDE DEF wire
<1>8. \A i \in DOMAIN rest : rest[i].kind \in {"chunk", "raw"}
  BY DEF Partial
<1>9. \A i \in DOMAIN more : more[i].kind \in {"chunk", "raw", "last"}
  <2> SUFFICES ASSUME NEW i \in 1 .. Len(more) PROVE more[i].kind \in {"chunk", "raw", "last"}
    BY <1>6
  <2>1. CASE i <= Len(rest)
    BY <1>5, <1>6, <1>8, <2>1
  <2>2. CASE i > Len(rest)
    <3>1. i - Len(rest) \in 1 .. Len(f) /\ more[i] = f[i - Len(rest)]
      BY <1>4, <1>5, <1>6, <2>2
    <3>2. \A j \in 1 .. Len(f) : f[j] \in {a, z}
      BY <1>1
    <3> QED
      BY <1>2, <3>1, <3>2
  <2> QED
    BY <1>6, <2>1, <2>2
<1>10. head.status = "304" => Sound(q, head, more, TRUE)
  BY <1>9 DEF Sound, Partial
<1>11. ASSUME head.status # "304" /\ chunking
       PROVE  Sound(q, head, more, TRUE)
  <2>1. f = (IF n > 0 THEN <<a, z>> ELSE <<z>>) /\ Len(f) \in {1, 2} /\ f[Len(f)] = z
    BY <1>1, <1>11
  <2>2. \A i \in DOMAIN rest : rest[i].kind = "chunk"
    BY <1>11 DEF Partial
  <2>3. \A i \in DOMAIN more : more[i].kind = IF i = Len(more) THEN "last" ELSE "chunk"
    <3> SUFFICES ASSUME NEW i \in 1 .. Len(more)
                 PROVE  more[i].kind = IF i = Len(more) THEN "last" ELSE "chunk"
      BY <1>6
    <3>1. CASE i <= Len(rest)
      BY <1>5, <1>6, <2>1, <2>2, <3>1
    <3>2. CASE i = Len(rest) + 1 /\ Len(f) = 1
      BY <1>2, <1>5, <1>6, <2>1, <3>2
    <3>3. CASE i = Len(rest) + 1 /\ Len(f) = 2
      <4>1. f = <<a, z>>
        BY <2>1, <3>3
      <4>2. f[1] = a /\ more[i] = f[1] /\ i # Len(more)
        BY <1>5, <1>6, <3>3, <4>1
      <4> QED
        BY <1>2, <1>11, <4>2
    <3>4. CASE i = Len(rest) + 2 /\ Len(f) = 2
      BY <1>2, <1>5, <1>6, <2>1, <3>4
    <3> QED
      BY <1>5, <1>6, <2>1, <3>1, <3>2, <3>3, <3>4
  <2>4. more # <<>>
    BY <1>5, <1>6, <2>1
  <2>5. head.chunked /\ head.length = {}
    BY <1>11 DEF Partial
  <2> QED
    BY <1>9, <1>11, <2>3, <2>4, <2>5 DEF Sound, Partial
<1>12. ASSUME head.status # "304" /\ ~chunking
       PROVE  Sound(q, head, more, TRUE)
  <2>1. f = (IF n > 0 THEN <<a>> ELSE <<>>) /\ Len(f) \in {0, 1}
    BY <1>1, <1>12
  <2>2. \A i \in DOMAIN rest : rest[i].kind = "raw"
    BY <1>12 DEF Partial
  <2>3. \A i \in DOMAIN more : more[i].kind = "raw"
    <3> SUFFICES ASSUME NEW i \in 1 .. Len(more) PROVE  more[i].kind = "raw"
      BY <1>6
    <3>1. CASE i <= Len(rest)
      BY <1>5, <1>6, <2>2, <3>1
    <3>2. CASE i = Len(rest) + 1 /\ Len(f) = 1
      <4>1. f = <<a>>
        BY <2>1, <3>2
      <4> QED
        BY <1>2, <1>5, <1>6, <1>12, <3>2, <4>1
    <3> QED
      BY <1>5, <1>6, <2>1, <3>1, <3>2
  <2>4. ~head.chunked /\ head.length = {} /\ q.client = "http10"
    BY <1>12 DEF Partial
  <2> QED
    BY <1>9, <1>12, <2>3, <2>4 DEF Sound, Partial
<1>13. Sound(q, head, more, TRUE)
  BY <1>10, <1>11, <1>12
<1> QED
  BY <1>7, <1>13 DEF wire, more, f, Framing

\* What no client sees may change: what is still to be written, while there is
\* something to write, and the headers, while they are not sent.
LEMMA SameIsFramable ==
  ASSUME NEW q, NEW r, Framable(q, r), NEW s,
         SameBut(r, s, {"buffer", "status", "length", "typed", "listening", "raised"}),
         s.buffer \in Nat, r.finished => s.buffer = 0 /\ s.listening = r.listening,
         ~r.headersWritten => s.length = {}
  PROVE  Framable(q, s)
<1>1. /\ s.wire = r.wire /\ s.headersWritten = r.headersWritten
      /\ s.finished = r.finished /\ s.chunking = r.chunking
  BY DEF SameBut, Attributes
<1>2. IsResponse(s)
  BY <1>1, RecordIs DEF SameBut, IsResponse, Framable
<1>3. EndOK(s)
  BY <1>1 DEF EndOK, Framable
<1>4. Unsent(q, r) => Unsent(q, s)
  BY <1>1 DEF Unsent
<1>5. Streaming(q, r) => Streaming(q, s)
  BY <1>1 DEF Streaming
<1>6. Over(q, r) => Over(q, s)
  BY <1>1 DEF Over
<1> QED
  BY <1>2, <1>3, <1>4, <1>5, <1>6 DEF Framable

\* One attribute that no client sees.
LEMMA OneIsFramable ==
  ASSUME NEW q, NEW r, Framable(q, r), NEW a \in {"status", "typed", "raised"}, NEW v
  PROVE  LET s == [r EXCEPT ![a] = v]
         IN  /\ Framable(q, s) /\ SameBut(r, s, {a}) /\ s[a] = v
<1> DEFINE s == [r EXCEPT ![a] = v]
<1>1. Record(r)
  BY RecordIs DEF Framable, IsResponse
<1>2. SameBut(r, s, {a}) /\ s[a] = v
  BY <1>1, SetOne DEF Attributes
<1> HIDE DEF s
<1>3. /\ SameBut(r, s, {"buffer", "status", "length", "typed", "listening", "raised"})
      /\ s.buffer = r.buffer /\ s.listening = r.listening /\ s.length = r.length
  BY <1>2 DEF SameBut, Attributes
<1>4. ~r.headersWritten => r.length = {}
  BY DEF Framable, Unsent, Streaming, Over, EndOK
<1>5. Framable(q, s)
  BY <1>3, <1>4, SameIsFramable DEF Framable, EndOK
<1> QED
  BY <1>2, <1>5 DEF s

\* flush() before the end, of a response that was not begun ...
LEMMA FlushBegins ==
  ASSUME NEW r, Framable(request, r), Unsent(request, r),
         NEW finishing \in BOOLEAN
  PROVE  LET s == Handler!Flush(r, finishing)
         IN  ~finishing => Framable(request, s) /\ s.raised = r.raised
<1> DEFINE s == Handler!Flush(r, finishing)
           x == Sent(r, finishing)
           rest == IF request.method = "HEAD" THEN <<>>
                   ELSE Handler!Framed(x.chunked, x.size, finishing)
<1>1. Record(r) /\ r.buffer \in Nat /\ r.wire = <<>> /\ ~r.headersWritten /\ ~r.finished
      /\ r.length = {}
  BY RecordIs DEF Framable, IsResponse, Unsent
<1>2. Flushes(r, s, x, finishing)
  BY <1>1, FlushIs
<1>3. /\ x.size \in Nat /\ x.length = {} /\ x.head.kind = "head" /\ x.head.status = r.status
      /\ x.head.length = {} /\ x.head.chunked = x.chunked /\ x.head.complete = finishing
      /\ x.chunked <=> r.chunking /\ r.status # "304"
  BY <1>1, SentIs
<1> HIDE DEF s, x, rest
<1> SUFFICES ASSUME ~finishing PROVE Framable(request, s) /\ s.raised = r.raised
  BY DEF s
<1>2a. /\ SameBut(r, s, {"buffer", "length", "gzipping", "headersWritten", "chunking", "wire"})
       /\ s.buffer = 0 /\ s.headersWritten = TRUE
       /\ s.chunking = IF ~r.headersWritten /\ r.status = "304" THEN r.chunking ELSE x.chunked
       /\ s.wire = r.wire \o (IF r.headersWritten THEN <<>> ELSE <<x.head>>) \o rest
  BY <1>2 DEF Flushes, rest
<1>4. Partial(request, x.head, <<>>, s.chunking)
  <2>1. r.chunking <=> request.client # "http10"
    BY DEF Unsent
  <2>2. r.status # "304" => s.chunking = x.chunked
    BY <1>2a
  <2>3. DOMAIN <<>> = {}
    OBVIOUS
  <2> QED
    BY <1>3, <2>1, <2>2, <2>3 DEF Partial
<1>5. IsSent(rest) /\ Partial(request, x.head, rest, s.chunking)
  <2>1. CASE request.method = "HEAD"
    BY <1>4, <2>1, OneSent DEF rest
  <2>2. CASE request.method # "HEAD"
    <3>1. IsSent(Handler!Framed(x.chunked, x.size, finishing))
      <4>1. Handler!Framed(x.chunked, x.size, finishing) =
              IF x.size > 0
                THEN <<Handler!Item(IF x.chunked THEN "chunk" ELSE "raw", x.size)>> ELSE <<>>
        BY <1>3, FramedIs
      <4> QED
        BY <4>1, OneSent
    <3>2. <<>> \o rest = rest
      <4>1. PICK P : rest \in Seq(P)
        BY <2>2, <3>1 DEF IsSent, rest
      <4> QED
        BY <4>1
    <3>3. CASE r.status # "304"
      <4>1. s.chunking = x.chunked
        BY <1>2a, <3>3
      <4>2. Partial(request, x.head, <<>> \o Handler!Framed(x.chunked, x.size, finishing), x.chunked)
        BY <1>3, <1>4, <4>1, <2>2, OneSent, PartialGrows
      <4> QED
        BY <2>2, <3>1, <3>2, <4>1, <4>2 DEF rest
    <3>4. CASE r.status = "304"
      <4>1. Partial(request, x.head, <<>>, x.chunked)
        BY <1>3, <1>4, <3>4, <2>2 DEF Partial
      <4>2. Partial(request, x.head, <<>> \o Handler!Framed(x.chunked, x.size, finishing), x.chunked)
        BY <1>3, <4>1, <2>2, OneSent, PartialGrows
      <4>3. Partial(request, x.head, rest, x.chunked)
        BY <2>2, <3>2, <4>2 DEF rest
      <4> QED
        BY <1>3, <2>2, <3>1, <3>4, <4>3 DEF Partial, rest
    <3> QED
      BY <3>3, <3>4
  <2> QED
    BY <2>1, <2>2
<1>6. s.wire = <<x.head>> \o rest
  <2>1. PICK P : rest \in Seq(P)
    BY <1>5 DEF IsSent
  <2>2. <<>> \o <<x.head>> = <<x.head>>
    OBVIOUS
  <2> QED
    BY <1>1, <1>2a, <2>2
<1>7. ~s.finished /\ s.raised = r.raised
  BY <1>1, <1>2a DEF SameBut, Attributes
<1>8. Streaming(request, s)
  BY <1>2a, <1>5, <1>6, <1>7 DEF Streaming
<1>9. IsResponse(s)
  BY <1>2a, <1>5, <1>6, OneSent, SentTogether, RecordIs DEF IsResponse, SameBut
<1> QED
  BY <1>2a, <1>7, <1>8, <1>9 DEF Framable, EndOK

\* ... or of one that was; and the last one of that.
LEMMA FlushGoesOn ==
  ASSUME NEW r, Framable(request, r), Streaming(request, r), NEW finishing \in BOOLEAN
  PROVE  LET s == Handler!Flush(r, finishing)
         IN  /\ Record(s) /\ IsSent(s.wire) /\ s.headersWritten /\ s.buffer = 0
             /\ s.raised = r.raised /\ s.listening = r.listening /\ ~s.finished
             /\ IF finishing THEN Framing(request, s.wire, TRUE) ELSE Framable(request, s)
<1> DEFINE s == Handler!Flush(r, finishing)
           x == Sent(r, finishing)
           f == IF request.method = "HEAD" THEN <<>>
                ELSE Handler!Framed(x.chunked, x.size, finishing)
<1>1. Record(r) /\ r.buffer \in Nat /\ r.headersWritten /\ ~r.finished
  BY RecordIs DEF Framable, IsResponse, Streaming
<1>2. PICK head, rest : /\ IsSent(rest) /\ r.wire = <<head>> \o rest
                        /\ Partial(request, head, rest, r.chunking)
  BY DEF Streaming
<1>3. /\ SameBut(r, s, {"buffer", "length", "gzipping", "headersWritten", "chunking", "wire"})
      /\ s.buffer = 0 /\ s.headersWritten = TRUE
      /\ s.chunking = IF ~r.headersWritten /\ r.status = "304" THEN r.chunking ELSE x.chunked
      /\ s.wire = r.wire \o (IF r.headersWritten THEN <<>> ELSE <<x.head>>) \o f
  <2>1. Flushes(r, s, x, finishing)
    BY <1>1, FlushIs
  <2> HIDE DEF s, x
  <2> QED
    BY <2>1 DEF Flushes
<1>4. x.size \in Nat /\ (x.chunked <=> r.chunking)
  BY <1>1, SentIs
<1>5. ~s.finished /\ s.raised = r.raised /\ s.listening = r.listening /\ Record(s)
  BY <1>1, <1>3 DEF SameBut, Attributes
<1>6. s.chunking = x.chunked /\ Partial(request, head, rest, x.chunked)
  <2>1. s.chunking = x.chunked
    BY <1>1, <1>3
  <2> QED
    BY <1>2, <1>4, <2>1 DEF Partial
<1> HIDE DEF s, x
<1>7. IsSent(f)
  <2>1. \A a, z : IsSent(<<a, z>>)
    <3> SUFFICES ASSUME NEW a, NEW z PROVE IsSent(<<a, z>>)
      OBVIOUS
    <3>1. <<a, z>> \in Seq({a, z})
      OBVIOUS
    <3> QED
      BY <3>1 DEF IsSent
  <2>2. IsSent(Handler!Framed(x.chunked, x.size, finishing))
    <3> DEFINE a == Handler!Item(IF x.chunked THEN "chunk" ELSE "raw", x.size)
               z == Handler!Item("last", 0)
    <3>1. Handler!Framed(x.chunked, x.size, finishing) =
               IF x.chunked /\ finishing THEN IF x.size > 0 THEN <<a, z>> ELSE <<z>>
               ELSE IF x.size > 0 THEN <<a>> ELSE <<>>
      BY <1>4, FramedIs
    <3> HIDE DEF a, z
    <3> QED
      BY <3>1, <2>1, OneSent
  <2> QED
    BY <2>2, OneSent
<1>8. s.wire = <<head>> \o (rest \o f) /\ IsSent(rest \o f) /\ IsSent(s.wire)
  <2> HIDE DEF f
  <2>1. r.wire \o <<>> = r.wire
    BY NothingSent DEF Framable, IsResponse
  <2>2. s.wire = r.wire \o f
    BY <1>1, <1>3, <2>1
  <2>3. IsSent(rest \o f) /\ IsSent(<<head>>)
    BY <1>2, <1>7, SentTogether, OneSent
  <2>4. s.wire = <<head>> \o (rest \o f)
    BY SMTT(30), <1>2, <1>7, <2>2, HeadAndBody
  <2> QED
    BY <2>3, <2>4, SentTogether
<1>9. CASE finishing
  <2>1. CASE request.method = "HEAD"
    <3>1. rest \o f = <<>>
      <4>1. rest = <<>> /\ f = <<>>
        BY <1>6, <2>1 DEF Partial
      <4> QED
        BY <4>1, OneSent, NothingSent
    <3>2. s.wire # <<>> /\ Head(s.wire) = head /\ Tail(s.wire) = <<>>
      BY <1>8, <3>1, HeadAndBody
    <3>3. Sound(request, head, <<>>, TRUE)
      BY <1>6, <2>1 DEF Sound, Partial
    <3> QED
      BY <1>3, <1>5, <1>8, <1>9, <3>2, <3>3 DEF Framing, s
  <2>2. CASE request.method # "HEAD"
    <3>1. Framing(request, <<head>> \o (rest \o f), TRUE)
      BY <1>2, <1>4, <1>6, <1>9, <2>2, PartialEnds
    <3> HIDE DEF f
    <3> QED
      BY <1>3, <1>5, <1>8, <1>9, <3>1 DEF s
  <2> QED
    BY <2>1, <2>2
<1>10. CASE ~finishing
  <2>1. Partial(request, head, rest \o f, s.chunking)
    <3>1. CASE request.method = "HEAD"
      <4>1. rest \o f = rest
        BY <1>2, <3>1, NothingSent
      <4> HIDE DEF f
      <4> QED
        BY <1>6, <4>1
    <3>2. CASE request.method # "HEAD"
      BY <1>2, <1>4, <1>6, <1>10, <3>2, PartialGrows
    <3> QED
      BY <3>1, <3>2
  <2> HIDE DEF f
  <2>2. Streaming(request, s)
    BY <1>3, <1>5, <1>8, <2>1 DEF Streaming
  <2>3. IsResponse(s) /\ EndOK(s)
    BY <1>5, <1>8, RecordIs DEF IsResponse, EndOK
  <2> QED
    BY <1>3, <1>5, <1>8, <1>10, <2>2, <2>3 DEF Framable, s
<1> QED
  BY <1>9, <1>10

\* What finish() makes of a response before its headers are sent: a 304 without
\* a body or the headers of one, or anything else with its length.
Concluded(r) ==
  /\ IsResponse(r) /\ r.wire = <<>> /\ ~r.headersWritten /\ ~r.finished /\ r.buffer \in Nat
  /\ IF r.status = "304" THEN r.buffer = 0 /\ ~r.typed /\ r.length = {}
                         ELSE r.length = {r.buffer}

\* The only flush of a response that finish() completed is framed.
LEMMA FlushConcluded ==
  ASSUME NEW r, Concluded(r), NEW finishing \in BOOLEAN
  PROVE  LET s == Handler!Flush(r, finishing)
         IN  finishing =>
               /\ IsResponse(s) /\ s.headersWritten /\ s.buffer = 0
               /\ s.raised = r.raised /\ s.listening = r.listening
               /\ Framing(request, s.wire, TRUE)
<1> DEFINE s == Handler!Flush(r, finishing)
           x == Sent(r, finishing)
           gzip == Handler!Compressing(r, finishing)
           rest == IF request.method = "HEAD" THEN <<>>
                   ELSE Handler!Framed(x.chunked, x.size, finishing)
<1>1. Record(r) /\ r.buffer \in Nat /\ r.wire = <<>> /\ ~r.headersWritten /\ ~r.finished
  BY RecordIs DEF Concluded, IsResponse
<1>2. Flushes(r, s, x, finishing)
  BY <1>1, FlushIs
<1>3. /\ x.size \in Nat /\ (~gzip => x.size = r.buffer)
      /\ r.length = {} => x.length = {}
      /\ r.length = {r.buffer} => x.length = {x.size}
      /\ x.head.kind = "head" /\ x.head.status = r.status /\ x.head.length = x.length
      /\ x.head.chunked = x.chunked /\ x.head.complete = finishing
      /\ x.chunked <=> /\ r.chunking
                       /\ r.headersWritten \/ (r.status # "304" /\ x.length = {})
  BY <1>1, SentIs
<1>4. r.status = "304" => ~gzip
  BY <1>1 DEF Concluded, Handler!Compressing
<1> HIDE DEF s, x, gzip, rest
<1> SUFFICES ASSUME finishing
             PROVE  /\ IsResponse(s) /\ s.headersWritten /\ s.buffer = 0
                    /\ s.raised = r.raised /\ s.listening = r.listening
                    /\ Framing(request, s.wire, TRUE)
  BY DEF s
<1>5. ~x.chunked
  <2>1. CASE r.status = "304"
    BY <1>1, <1>3, <2>1
  <2>2. CASE r.status # "304"
    <3>1. x.length = {x.size}
      BY <1>3, <2>2 DEF Concluded
    <3> QED
      BY <1>1, <1>3, <3>1
  <2> QED
    BY <2>1, <2>2
<1> DEFINE a == Handler!Item("raw", x.size)
<1>6. a.kind = "raw" /\ a.n = x.size
  BY DEF Handler!Item
<1>7. Handler!Framed(x.chunked, x.size, finishing) = IF x.size > 0 THEN <<a>> ELSE <<>>
  <2> DEFINE b == Handler!Item(IF x.chunked THEN "chunk" ELSE "raw", x.size)
             z == Handler!Item("last", 0)
  <2>1. Handler!Framed(x.chunked, x.size, finishing) =
               IF x.chunked /\ finishing THEN IF x.size > 0 THEN <<b, z>> ELSE <<z>>
               ELSE IF x.size > 0 THEN <<b>> ELSE <<>>
    BY <1>3, FramedIs
  <2>2. b = a
    BY <1>5
  <2> HIDE DEF a, b, z
  <2> QED
    BY <1>5, <2>1, <2>2
<1> HIDE DEF a
<1>8. rest = <<>> \/ (rest = <<a>> /\ x.size > 0 /\ request.method # "HEAD")
  BY <1>7 DEF rest
<1>9. request.method # "HEAD" /\ rest = <<>> => x.size = 0
  <2>1. <<a>> # <<>>
    OBVIOUS
  <2>2. request.method # "HEAD" => rest = IF x.size > 0 THEN <<a>> ELSE <<>>
    BY <1>7 DEF rest
  <2> QED
    BY <1>3, <2>1, <2>2
<1>10. IsSent(rest) /\ s.wire = <<x.head>> \o rest
  <2>1. IsSent(rest)
    BY <1>8, OneSent
  <2>2. PICK P : rest \in Seq(P)
    BY <2>1 DEF IsSent
  <2>3. <<>> \o <<x.head>> = <<x.head>>
    OBVIOUS
  <2>4. s.wire = <<>> \o <<x.head>> \o rest
    BY <1>1, <1>2 DEF Flushes, rest
  <2> QED
    BY <2>1, <2>3, <2>4
<1>11. /\ Record(s) /\ s.headersWritten /\ s.buffer = 0
       /\ s.raised = r.raised /\ s.listening = r.listening
  BY <1>2 DEF Flushes, SameBut, Attributes
<1>12. IsResponse(s)
  BY <1>10, <1>11, OneSent, SentTogether, RecordIs DEF IsResponse
<1>13. Sound(request, x.head, rest, TRUE)
  <2>1. \A i \in DOMAIN rest : rest[i].kind = "raw"
    BY <1>6, <1>8
  <2>2. r.status = "304" => rest = <<>>
    BY <1>1, <1>3, <1>4, <1>8 DEF Concluded
  <2>3. x.head.status # "304" => x.head.length = {x.size}
    BY <1>3 DEF Concluded
  <2>4. request.method # "HEAD" => Handler!Sum(rest) = x.size
    <3>1. CASE rest = <<>>
      BY <1>9, <3>1, Sums
    <3>2. CASE rest = <<a>>
      BY <1>3, <1>6, <3>2, Sums
    <3> QED
      BY <1>8, <3>1, <3>2
  <2>5. request.method = "HEAD" => rest = <<>>
    BY DEF rest
  <2> HIDE DEF rest
  <2> QED
    BY <1>3, <1>5, <2>1, <2>2, <2>3, <2>4, <2>5 DEF Sound
<1>14. Framing(request, s.wire, TRUE)
  <2>1. s.wire # <<>> /\ Head(s.wire) = x.head /\ Tail(s.wire) = rest
    BY <1>10, HeadAndBody
  <2> QED
    BY <1>13, <2>1 DEF Framing
<1> QED
  BY <1>11, <1>12, <1>14

\* The flush of a finished response adds nothing.
LEMMA FlushOver ==
  ASSUME NEW r, Framable(request, r), Over(request, r)
  PROVE  Framable(request, Handler!Flush(r, FALSE))
<1> DEFINE no == FALSE
           s == Handler!Flush(r, no)
<1>1. Leaves(r, s) /\ s.finished = r.finished
  BY FlushLeaves DEF Framable, Over
<1> HIDE DEF s
<1>2. IsResponse(s) /\ EndOK(s) /\ s.wire = r.wire /\ s.finished
  BY <1>1 DEF Leaves, Over
<1>3. s.buffer = 0
  BY <1>2 DEF EndOK
<1>4. Framable(request, s)
  <2>1. Over(request, s)
    BY <1>2, Zenon DEF Over
  <2> QED
    BY <1>2, <1>3, <2>1 DEF Framable
<1> QED
  BY <1>4 DEF s

\* A response that a call of the handler may leave.
Fits(s) == Framable(request, s)

\* The attribute that tells a call that failed is set.
LEMMA RaisedFits ==
  ASSUME NEW r, Fits(r), NEW b
  PROVE  LET s == [r EXCEPT !.raised = b]
         IN  Fits(s) /\ SameBut(r, s, {"raised"}) /\ s.raised = b
BY OneIsFramable DEF Fits

\* The response of a call that fails.
LEMMA RaiseFits ==
  ASSUME NEW r, Fits(r)
  PROVE  LET s == Handler!Raise(r)
         IN  Fits(s) /\ SameBut(r, s, {"raised"})
<1> DEFINE b == TRUE
<1>1. Handler!Raise(r) = [r EXCEPT !.raised = b]
  BY DEF Handler!Raise
<1> HIDE DEF b
<1> QED
  BY <1>1, RaisedFits

\* A caught error is forgotten.
LEMMA QuietFits ==
  ASSUME NEW r, Fits(r)
  PROVE  LET s == Handler!Quiet(r)
         IN  Fits(s) /\ SameBut(r, s, {"raised"}) /\ ~s.raised
<1> DEFINE b == FALSE
<1>1. Handler!Quiet(r) = [r EXCEPT !.raised = b]
  BY DEF Handler!Quiet
<1>2. ~b
  OBVIOUS
<1> HIDE DEF b
<1> QED
  BY <1>1, <1>2, RaisedFits

\* What was written is still to be sent.
LEMMA WriteFits ==
  ASSUME NEW r, Fits(r), NEW n \in Nat
  PROVE  LET s == Handler!Write(r, n)
         IN  /\ Fits(s) /\ SameBut(r, s, {"buffer", "raised"})
             /\ ~r.finished => s.raised = r.raised
<1>1. CASE r.finished
  <2> DEFINE s == Handler!Raise(r)
  <2>1. Handler!Write(r, n) = s
    BY <1>1 DEF Handler!Write
  <2>2. Fits(s) /\ SameBut(r, s, {"raised"})
    BY RaiseFits
  <2> HIDE DEF s
  <2> QED
    BY <1>1, <2>1, <2>2 DEF SameBut
<1>2. CASE ~r.finished
  <2> DEFINE m == r.buffer + n
             s == [r EXCEPT !.buffer = m]
  <2>1. Handler!Write(r, n) = s
    BY <1>2 DEF Handler!Write
  <2>2. m \in Nat /\ Record(r)
    BY RecordIs DEF Fits, Framable, IsResponse
  <2> HIDE DEF m
  <2>3. SameBut(r, s, {"buffer"}) /\ s.buffer = m
    BY <2>2, SetOne DEF Attributes
  <2> HIDE DEF s
  <2>4. /\ SameBut(r, s, {"buffer", "status", "length", "typed", "listening", "raised"})
        /\ s.length = r.length /\ s.raised = r.raised /\ SameBut(r, s, {"buffer", "raised"})
    BY <2>3 DEF SameBut, Attributes
  <2>5. ~r.headersWritten => r.length = {}
    BY DEF Fits, Framable, Unsent, Streaming, Over, EndOK
  <2>6. Fits(s)
    BY <1>2, <2>2, <2>3, <2>4, <2>5, SameIsFramable DEF Fits
  <2> QED
    BY <2>1, <2>4, <2>6
<1> QED
  BY <1>1, <1>2

\* The headers are completed: the response is ready for its only flush, or
\* the call fails before it sends anything.
LEMMA ConcludeFits ==
  ASSUME NEW r, Fits(r), Unsent(request, r)
  PROVE  LET s == Handler!Conclude(r)
         IN  \/ Fits(s) /\ s.raised /\ r.status \in {"200", "304"}
             \/ Concluded(s) /\ s.raised = r.raised
<1> DEFINE hit == /\ r.status = "200" /\ request.method \in {"GET", "HEAD"}
                  /\ r.buffer \in request.etags
           empty == [r EXCEPT !.buffer = 0]
           found == [empty EXCEPT !.status = "304"]
           s   == IF hit THEN found ELSE r
           none == [s EXCEPT !.length = {}]
           no == FALSE
           untyped == [none EXCEPT !.typed = no]
           whole == [s EXCEPT !.length = {s.buffer}]
<1>1. Handler!Conclude(r) = CASE s.status = "304" /\ s.buffer > 0 -> Handler!Raise(s)
                              [] s.status = "304" /\ s.buffer = 0 -> untyped
                              [] OTHER -> whole
  BY DEF Handler!Conclude
<1>2. Record(r) /\ r.buffer \in Nat /\ r.wire = <<>> /\ ~r.headersWritten /\ ~r.finished
      /\ r.length = {}
  BY RecordIs DEF Fits, Framable, IsResponse, Unsent
<1> HIDE DEF no
<1>3. /\ SameBut(r, s, {"buffer", "status"}) /\ s.buffer \in Nat
      /\ s.status = "304" => r.status \in {"200", "304"}
  <2>5. hit => r.status = "200"
    OBVIOUS
  <2> HIDE DEF hit
  <2>1. SameBut(r, empty, {"buffer"}) /\ empty.buffer = 0
    <3>1. Record(r)
      BY <1>2
    <3> QED
      BY <3>1, SetOne DEF Attributes
  <2> HIDE DEF empty
  <2>2. SameBut(empty, found, {"status"}) /\ found.status = "304"
    BY <2>1, SetOne DEF Attributes, SameBut
  <2> HIDE DEF found
  <2>3. SameBut(r, found, {"buffer", "status"}) /\ found.buffer = 0
    BY <2>1, <2>2 DEF SameBut, Attributes
  <2>4. SameBut(r, r, {"buffer", "status"})
    BY <1>2 DEF SameBut
  <2> QED
    BY <1>2, <2>3, <2>4, <2>5
<1> HIDE DEF s, hit, empty, found
<1>4. /\ Record(s) /\ s.wire = r.wire /\ s.headersWritten = r.headersWritten
      /\ s.finished = r.finished /\ s.length = r.length /\ s.raised = r.raised
  BY <1>3 DEF SameBut, Attributes
<1>5. SameBut(s, none, {"length"}) /\ none.length = {}
  BY <1>4, SetOne DEF Attributes
<1>6. SameBut(s, whole, {"length"}) /\ whole.length = {s.buffer}
  BY <1>4, SetOne DEF Attributes
<1> HIDE DEF none, whole
<1>7. SameBut(none, untyped, {"typed"}) /\ untyped.typed = no
  BY <1>5, SetOne DEF Attributes, SameBut
<1> HIDE DEF untyped
<1>8. IsSent(s.wire)
  BY <1>2, <1>4, OneSent
<1>9. CASE s.status = "304" /\ s.buffer > 0
  <2>1. Handler!Conclude(r) = Handler!Raise(s)
    BY <1>1, <1>9
  <2>2. Fits(s)
    BY <1>2, <1>3, SameIsFramable, <1>4 DEF Fits, SameBut
  <2> DEFINE yes == TRUE
  <2>3. Handler!Raise(s) = [s EXCEPT !.raised = yes] /\ yes
    BY DEF Handler!Raise
  <2> HIDE DEF yes
  <2>4. Fits(Handler!Raise(s)) /\ Handler!Raise(s).raised = yes
    BY <2>2, <2>3, RaisedFits
  <2> QED
    BY <1>3, <1>9, <2>1, <2>3, <2>4
<1>10. CASE s.status = "304" /\ s.buffer = 0
  <2>1. Handler!Conclude(r) = untyped
    BY <1>1, <1>10
  <2>2. /\ untyped.wire = <<>> /\ ~untyped.headersWritten /\ ~untyped.finished
        /\ untyped.status = "304" /\ untyped.buffer = 0 /\ ~untyped.typed
        /\ untyped.length = {} /\ untyped.raised = r.raised /\ Record(untyped)
    BY <1>2, <1>4, <1>5, <1>7, <1>10 DEF SameBut, Attributes, no
  <2>3. Concluded(untyped)
    BY <2>2, OneSent, RecordIs DEF Concluded, IsResponse
  <2> QED
    BY <2>1, <2>2, <2>3
<1>11. CASE s.status # "304"
  <2>1. Handler!Conclude(r) = whole
    BY <1>1, <1>11
  <2>2. /\ whole.wire = <<>> /\ ~whole.headersWritten /\ ~whole.finished
        /\ whole.status # "304" /\ whole.buffer = s.buffer
        /\ whole.length = {whole.buffer} /\ whole.raised = r.raised /\ Record(whole)
    BY <1>2, <1>4, <1>6, <1>11 DEF SameBut, Attributes
  <2>3. Concluded(whole)
    BY <1>3, <2>2, OneSent, RecordIs DEF Concluded, IsResponse
  <2> QED
    BY <2>1, <2>2, <2>3
<1> QED
  BY <1>3, <1>9, <1>10, <1>11

\* The response is ended.
LEMMA EndedFits ==
  ASSUME NEW r, IsResponse(r), r.headersWritten, r.buffer = 0, ~r.listening,
         Framing(request, r.wire, TRUE)
  PROVE  LET s == [r EXCEPT !.finished = TRUE]
         IN  Fits(s) /\ s.finished /\ s.raised = r.raised
<1> DEFINE yes == TRUE
           s == [r EXCEPT !.finished = yes]
<1> HIDE DEF yes
<1>1. Record(r)
  BY RecordIs DEF IsResponse
<1>2. SameBut(r, s, {"finished"}) /\ s.finished = yes
  BY <1>1, SetOne DEF Attributes
<1> HIDE DEF s
<1>3. /\ Record(s) /\ s.wire = r.wire /\ s.headersWritten /\ s.buffer = 0 /\ ~s.listening
      /\ s.finished /\ s.raised = r.raised
  BY <1>2 DEF SameBut, Attributes, yes
<1>4. Over(request, s)
  <2>1. Framing(request, s.wire, TRUE)
    BY <1>3, Zenon
  <2> QED
    BY <1>3, <2>1, Zenon DEF Over
<1>5. IsResponse(s) /\ EndOK(s) /\ s.buffer \in Nat
  BY <1>3, RecordIs DEF IsResponse, EndOK
<1>6. Fits(s)
  BY <1>4, <1>5 DEF Fits, Framable
<1> QED
  BY <1>3, <1>6 DEF s, yes

\* finish() ends what was begun, or completes the headers and sends everything at
\* once; it fails on a finished response, and for a body that a 304 cannot have.
LEMMA FinishFits ==
  ASSUME NEW r, Fits(r), ~r.raised, NEW n \in Nat
  PROVE  LET s == Handler!Finish(r, n)
         IN  /\ Fits(s)
             /\ ~r.finished /\ (r.headersWritten \/ r.status \notin {"200", "304"}) =>
                  s.finished /\ ~s.raised
<1> DEFINE w == Handler!Write(r, n)
           c == IF w.headersWritten THEN w ELSE Handler!Conclude(w)
           no == FALSE
           yes == TRUE
           silent == [c EXCEPT !.listening = no]
           sent == Handler!Flush(silent, yes)
           ended == [sent EXCEPT !.finished = TRUE]
<1>1. Handler!Finish(r, n) = IF r.finished \/ c.raised THEN Handler!Raise(c) ELSE ended
  BY DEF Handler!Finish
<1> HIDE DEF no, yes
<1>2. Fits(w) /\ SameBut(r, w, {"buffer", "raised"}) /\ (~r.finished => w.raised = r.raised)
  BY WriteFits
<1> HIDE DEF w
<1>3. w.finished = r.finished /\ w.headersWritten = r.headersWritten /\ w.status = r.status
  BY <1>2 DEF SameBut, Attributes
<1>4. CASE r.finished
  <2>1. c = w
    BY <1>3, <1>4 DEF Fits, Framable, EndOK
  <2>2. Handler!Finish(r, n) = Handler!Raise(w)
    BY <1>1, <1>4, <2>1
  <2> QED
    BY <1>2, <1>4, <2>2, RaiseFits
<1>5. CASE ~r.finished /\ c.raised
  <2>1. ~w.headersWritten
    BY <1>2, <1>5
  <2>2. Unsent(request, w)
    BY <1>2, <1>3, <1>5, <2>1 DEF Fits, Framable, Streaming, Over
  <2>3. c = Handler!Conclude(w)
    BY <2>1
  <2> HIDE DEF c
  <2>4. Fits(c) /\ w.status \in {"200", "304"}
    BY <1>2, <1>5, <2>2, <2>3, ConcludeFits
  <2>5. Handler!Finish(r, n) = Handler!Raise(c)
    BY <1>1, <1>5
  <2> QED
    BY <1>3, <1>5, <2>1, <2>4, <2>5, RaiseFits
<1>6. CASE ~r.finished /\ ~c.raised
  <2>1. (Fits(c) /\ Streaming(request, c)) \/ Concluded(c)
    <3>1. CASE w.headersWritten
      BY <1>2, <1>3, <1>6, <3>1 DEF Fits, Framable, Unsent, Over
    <3>2. CASE ~w.headersWritten
      <4>1. Unsent(request, w)
        BY <1>2, <1>3, <1>6, <3>2 DEF Fits, Framable, Streaming, Over
      <4>2. c = Handler!Conclude(w)
        BY <3>2
      <4> HIDE DEF c
      <4> QED
        BY <1>2, <1>6, <4>1, <4>2, ConcludeFits
    <3> QED
      BY <3>1, <3>2
  <2> HIDE DEF c
  <2>2. Record(c)
    BY <2>1, RecordIs DEF Fits, Framable, IsResponse, Concluded
  <2>3. SameBut(c, silent, {"listening"}) /\ silent.listening = no
    BY <2>2, SetOne DEF Attributes
  <2> HIDE DEF silent
  <2>4. ~silent.listening /\ silent.raised = c.raised
    BY <2>3 DEF SameBut, Attributes, no
  <2>5. yes \in BOOLEAN /\ yes
    BY DEF yes
  <2>6. /\ IsResponse(sent) /\ sent.headersWritten /\ sent.buffer = 0
        /\ sent.raised = silent.raised /\ sent.listening = silent.listening
        /\ Framing(request, sent.wire, TRUE)
    <3>1. CASE Fits(c) /\ Streaming(request, c)
      <4>1. ~c.finished /\ c.headersWritten
        BY <3>1 DEF Streaming
      <4>2. /\ SameBut(c, silent, {"buffer", "status", "length", "typed", "listening", "raised"})
            /\ silent.buffer = c.buffer
        BY <2>3 DEF SameBut, Attributes
      <4>3. c.buffer \in Nat
        BY <3>1 DEF Fits, Framable
      <4>4. Framable(request, silent)
        BY <3>1, <4>1, <4>2, <4>3, SameIsFramable DEF Fits
      <4>5. silent.headersWritten /\ ~silent.finished
        BY <2>3, <4>1 DEF SameBut, Attributes
      <4>6. Streaming(request, silent)
        BY <4>4, <4>5 DEF Framable, Unsent, Over
      <4>7. /\ Record(sent) /\ IsSent(sent.wire) /\ sent.headersWritten /\ sent.buffer = 0
            /\ sent.raised = silent.raised /\ sent.listening = silent.listening
            /\ Framing(request, sent.wire, TRUE)
        BY <2>5, <4>4, <4>6, FlushGoesOn
      <4> QED
        BY <4>7, RecordIs DEF IsResponse
    <3>2. CASE Concluded(c)
      <4>1. Concluded(silent)
        <5>1. /\ silent.wire = c.wire /\ silent.headersWritten = c.headersWritten
              /\ silent.finished = c.finished /\ silent.buffer = c.buffer
              /\ silent.status = c.status /\ silent.typed = c.typed
              /\ silent.length = c.length /\ Record(silent)
          BY <2>3 DEF SameBut, Attributes
        <5> QED
          BY <3>2, <5>1, RecordIs DEF Concluded, IsResponse
      <4> QED
        BY <2>5, <4>1, FlushConcluded
    <3> QED
      BY <2>1, <3>1, <3>2
  <2> HIDE DEF sent
  <2>7. Fits(ended) /\ ended.finished /\ ended.raised = sent.raised
    BY <2>4, <2>6, EndedFits
  <2>8. Handler!Finish(r, n) = ended
    BY <1>1, <1>6
  <2> HIDE DEF ended
  <2> QED
    BY <1>6, <2>4, <2>6, <2>7, <2>8
<1> QED
  BY <1>4, <1>5, <1>6

\* The status of a response is set.
LEMMA StatusFits ==
  ASSUME NEW r, Fits(r), NEW v
  PROVE  LET s == [r EXCEPT !.status = v]
         IN  Fits(s) /\ SameBut(r, s, {"status"}) /\ s.status = v
BY OneIsFramable DEF Fits

\* redirect() finishes a response that was not begun.
LEMMA RedirectFits ==
  ASSUME NEW r, Fits(r), ~r.raised
  PROVE  Fits(Handler!Redirect(r))
<1> DEFINE s == [r EXCEPT !.status = "302"]
<1>1. Handler!Redirect(r) = IF r.headersWritten THEN Handler!Raise(r) ELSE Handler!Finish(s, 0)
  BY DEF Handler!Redirect
<1>2. Fits(s) /\ SameBut(r, s, {"status"})
  BY StatusFits
<1> HIDE DEF s
<1>3. ~s.raised
  BY <1>2 DEF SameBut, Attributes
<1>4. Fits(Handler!Finish(s, 0))
  BY <1>2, <1>3, FinishFits
<1> QED
  BY <1>1, <1>4, RaiseFits

\* An error page takes the place of what was written.
LEMMA ClearFits ==
  ASSUME NEW r, Fits(r), ~r.headersWritten, NEW code
  PROVE  LET s == [Handler!Clear(r) EXCEPT !.status = code]
         IN  /\ Fits(s) /\ ~s.finished /\ ~s.headersWritten /\ s.status = code
             /\ s.raised = r.raised
<1> DEFINE yes == TRUE
           s == [Handler!Clear(r) EXCEPT !.status = code]
           c1 == [r EXCEPT !.buffer = 0]
           c2 == [c1 EXCEPT !.status = "200"]
           c3 == [c2 EXCEPT !.length = {}]
           c4 == [c3 EXCEPT !.typed = yes]
<1>1. s = [c4 EXCEPT !.status = code]
  BY DEF Handler!Clear
<1>2. Record(r) /\ ~r.finished
  BY RecordIs DEF Fits, Framable, IsResponse, EndOK
<1> HIDE DEF yes, s
<1>3. SameBut(r, c1, {"buffer"}) /\ c1.buffer = 0
  <2>1. Record(r)
    BY <1>2
  <2> QED
    BY <2>1, SetOne DEF Attributes
<1> HIDE DEF c1
<1>4. SameBut(c1, c2, {"status"})
  BY <1>3, SetOne DEF Attributes, SameBut
<1> HIDE DEF c2
<1>5. SameBut(c2, c3, {"length"}) /\ c3.length = {}
  BY <1>4, SetOne DEF Attributes, SameBut
<1> HIDE DEF c3
<1>6. SameBut(c3, c4, {"typed"})
  BY <1>5, SetOne DEF Attributes, SameBut
<1> HIDE DEF c4
<1>7. SameBut(c4, s, {"status"}) /\ s.status = code
  BY <1>1, <1>6, SetOne DEF Attributes, SameBut
<1>8. /\ SameBut(r, s, {"buffer", "status", "length", "typed", "listening", "raised"})
      /\ s.buffer = 0 /\ s.length = {} /\ s.raised = r.raised
      /\ s.headersWritten = r.headersWritten /\ s.finished = r.finished
  BY <1>3, <1>4, <1>5, <1>6, <1>7 DEF SameBut, Attributes
<1>9. Fits(s)
  BY <1>2, <1>8, SameIsFramable DEF Fits
<1> QED
  BY <1>2, <1>7, <1>8, <1>9 DEF s

\* send_error() leaves a framed response, whatever becomes of its page; an
\* error's own code it always sends.
LEMMA SendErrorFits ==
  ASSUME NEW r, Fits(r), ~r.raised, NEW code
  PROVE  LET s == Handler!SendError(r, code)
         IN  Fits(s) /\ (code \notin {"200", "304"} => ~s.raised)
<1>1. CASE r.headersWritten
  <2>1. Handler!SendError(r, code) = IF r.finished THEN r ELSE Handler!Finish(r, 0)
    BY <1>1 DEF Handler!SendError
  <2> QED
    BY <1>1, <2>1, FinishFits
<1>2. CASE ~r.headersWritten
  <2> DEFINE c == [Handler!Clear(r) EXCEPT !.status = code]
             f == Handler!Finish(c, 1)
             written == Handler!Write(c, 1)
             quiet == Handler!Quiet(f)
             page == IF app.pageFails THEN written ELSE quiet
             s == Handler!Finish(page, 0)
  <2>1. Handler!SendError(r, code) = IF page.finished THEN page ELSE s
    BY <1>2 DEF Handler!SendError, Handler!Quiet
  <2>2. /\ Fits(c) /\ ~c.finished /\ ~c.headersWritten /\ c.status = code
        /\ ~c.raised
    BY <1>2, ClearFits
  <2> HIDE DEF c
  <2>3. Fits(written) /\ ~written.raised /\ written.status = code
    <3>1. /\ Fits(written) /\ SameBut(c, written, {"buffer", "raised"})
          /\ written.raised = c.raised
      BY <2>2, WriteFits
    <3> HIDE DEF written
    <3> QED
      BY <2>2, <3>1 DEF SameBut, Attributes
  <2>4. Fits(f) /\ (code \notin {"200", "304"} => f.finished)
    BY <2>2, FinishFits
  <2> HIDE DEF f, written
  <2>5. Fits(quiet) /\ ~quiet.raised /\ quiet.finished = f.finished
    <3>1. Fits(quiet) /\ SameBut(f, quiet, {"raised"}) /\ ~quiet.raised
      BY <2>4, QuietFits
    <3> HIDE DEF quiet
    <3> QED
      BY <3>1 DEF SameBut, Attributes
  <2> HIDE DEF quiet
  <2>6. /\ Fits(page) /\ ~page.raised
        /\ code \notin {"200", "304"} /\ ~page.finished => page.status = code
    BY <2>3, <2>4, <2>5
  <2> HIDE DEF page
  <2>7. /\ Fits(s)
        /\ ~page.finished /\ page.status \notin {"200", "304"} => ~s.raised
    BY <2>6, FinishFits
  <2> HIDE DEF s
  <2> QED
    BY <2>1, <2>6, <2>7
<1> QED
  BY <1>1, <1>2

\* The handling of an error, too.
LEMMA HandleExceptionFits ==
  ASSUME NEW r, Fits(r), ~r.raised, NEW code
  PROVE  LET s == Handler!HandleException(r, code)
         IN  Fits(s) /\ (code \notin {"200", "304"} => ~s.raised)
BY SendErrorFits DEF Handler!HandleException

\* Handling an error of what a call left.
LEMMA HandledFits ==
  ASSUME NEW r, Fits(r), NEW code
  PROVE  /\ Fits(Handler!Quiet(r)) /\ ~Handler!Quiet(r).raised
         /\ Fits(Handler!HandleException(Handler!Quiet(r), code))
<1>1. Fits(Handler!Quiet(r)) /\ ~Handler!Quiet(r).raised
  BY QuietFits
<1> QED
  BY <1>1, HandleExceptionFits

\* Between two steps the response is framed so far, and no error is left in it.
FramedInv == Framable(request, response) /\ ~response.raised

\* An error escapes the code that runs, ...
LEMMA EscapesFits ==
  ASSUME NEW r, NEW e, Fits(r), Handler!Escapes(r, e)
  PROVE  Fits(response') /\ ~response'.raised
<1> DEFINE h == Handler!HandleException(Handler!Quiet(r), e)
           again == Handler!HandleException(Handler!Quiet(h), "500")
<1>1. Fits(h)
  BY HandledFits
<1>2. \/ response' = Handler!Quiet(r)
      \/ response' = Handler!Quiet(h)
      \/ response' = Handler!Quiet(again)
  BY DEF Handler!Escapes
<1> HIDE DEF h
<1>3. Fits(again)
  BY <1>1, HandledFits
<1> HIDE DEF again
<1> QED
  BY <1>1, <1>2, <1>3, HandledFits

\* ... or is handled where the framework's own call made it.
LEMMA OwnCallFits ==
  ASSUME NEW r, Fits(r)
  PROVE  Fits(Handler!Handled(r)) /\ ~Handler!Handled(r).raised
<1> DEFINE h == Handler!HandleException(Handler!Quiet(r), "500")
<1>1. Handler!Handled(r) \in {Handler!Quiet(h), Handler!Quiet(r)}
  BY DEF Handler!Handled
<1>2. Fits(h)
  BY HandledFits
<1> HIDE DEF h
<1> QED
  BY <1>1, <1>2, HandledFits

LEMMA OnLoopFits ==
  ASSUME NEW r, Fits(r), Handler!OnLoop(r)
  PROVE  Fits(response') /\ ~response'.raised
<1>1. response' = Handler!Handled(r)
  BY DEF Handler!OnLoop
<1> QED
  BY <1>1, OwnCallFits

\* A call of the application.
LEMMA CallFits ==
  ASSUME NEW r, Fits(r), Handler!Call(r)
  PROVE  Fits(response') /\ ~response'.raised
<1>1. CASE r.raised
  BY <1>1, EscapesFits DEF Handler!Call
<1>2. CASE ~r.raised
  BY <1>2 DEF Handler!Call
<1> QED
  BY <1>1, <1>2

\* prepare() is over and the method is entered, or turned away.
LEMMA EnterMethodFits ==
  ASSUME FramedInv, Handler!EnterMethod
  PROVE  Fits(response') /\ ~response'.raised
<1>1. Fits(response) /\ ~response.raised
  BY DEF FramedInv, Fits
<1>2. CASE response' = response
  BY <1>1, <1>2
<1>3. CASE \E r \in {Handler!Authenticated(response), Handler!Slash(response)} : Handler!OnLoop(r)
  <2>1. PICK r \in {Handler!Authenticated(response), Handler!Slash(response)} : Handler!OnLoop(r)
    BY <1>3
  <2>2. r \in {Handler!Redirect(response), Handler!HandleException(response, "403"),
               Handler!HandleException(response, "404")}
    BY <2>1 DEF Handler!Authenticated, Handler!Slash
  <2>3. Fits(r)
    BY <2>2, <1>1, HandleExceptionFits, RedirectFits
  <2> QED
    BY <2>1, <2>3, OnLoopFits
<1> QED
  BY <1>2, <1>3 DEF Handler!EnterMethod

\* A future of the handler is done.
LEMMA FutureDoneFits ==
  ASSUME FramedInv, Handler!FutureDone
  PROVE  Fits(response') /\ ~response'.raised
<1> DEFINE c == IF app.asynchronous /\ awaiting = "method"
                  THEN Handler!FutureComplete(response, outcome) ELSE response
           r == Handler!Handled(c)
           s == Handler!HandleException(r, IF outcome = "value" THEN "500" ELSE outcome)
           f == IF Handler!ExecuteFinish THEN Handler!Finish(response, 0) ELSE c
           error == Handler!HandleException(response, outcome)
<1>1. Fits(response) /\ ~response.raised
  BY DEF FramedInv, Fits
<1>2. Handler!EnterMethod \/ Handler!OnLoop(f) \/ response' = Handler!Quiet(s)
  BY DEF Handler!FutureDone
<1>3. Fits(error) /\ Fits(Handler!Finish(response, 0))
  BY <1>1, HandleExceptionFits, FinishFits
<1>4. c \in {Handler!Quiet(error), response, Handler!Finish(response, 0)}
  BY DEF Handler!FutureComplete
<1> HIDE DEF c, error
<1>5. Fits(c) /\ Fits(f)
  BY <1>1, <1>3, <1>4, HandledFits
<1>6. Fits(r) /\ ~r.raised
  BY <1>5, OwnCallFits
<1> HIDE DEF r, f
<1>7. Fits(s)
  BY <1>6, HandleExceptionFits
<1> HIDE DEF s
<1> QED
  BY <1>2, <1>5, <1>7, EnterMethodFits, OnLoopFits, HandledFits

\* No step changes what was asked.
LEMMA RequestStays == Handler!Next => request' = request
BY DEF Handler!Next, Handler!Returns, Handler!Execute, Handler!AppWrite, Handler!AppFlush,
       Handler!AppFinish, Handler!AppRedirect, Handler!AppSendError, Handler!AppNotModified,
       Handler!AppSchedule, Handler!AppFails, Handler!Call, Handler!Escapes,
       Handler!PrepareReturns, Handler!MethodReturns, Handler!ReturnsFuture,
       Handler!ReturnsValue, Handler!CoroutineReturns, Handler!CallbackReturns,
       Handler!CoroutineRuns, Handler!FutureDone, Handler!CallbackRuns,
       Handler!ConnectionCloses

\* Every step of the handler.
LEMMA HandlerFits ==
  ASSUME FramedInv, Handler!Next
  PROVE  FramedInv'
<1> SUFFICES Fits(response') /\ ~response'.raised
  BY RequestStays DEF FramedInv, Fits
<1>0. Fits(response) /\ ~response.raised
  BY DEF FramedInv, Fits
<1>1. CASE Handler!Execute
  <2> DEFINE code == IF request.method = "TRACE" THEN "405" ELSE "403"
  <2>1. response' \in {response, Handler!HandleException(response, code)}
    BY <1>1 DEF Handler!Execute
  <2>2. code \notin {"200", "304"}
    OBVIOUS
  <2> HIDE DEF code
  <2> QED
    BY <1>0, <2>1, <2>2, HandleExceptionFits
<1>2. CASE \E r \in {Handler!Write(response, 1), Handler!Redirect(response)} : Handler!Call(r)
  BY <1>0, <1>2, WriteFits, RedirectFits, CallFits
<1>3. CASE Handler!AppFlush
  <2> DEFINE no == FALSE
             r == Handler!Flush(response, no)
  <2>1. Handler!Call(r)
    BY <1>3 DEF Handler!AppFlush
  <2>2. Fits(r)
    <3>1. CASE Over(request, response)
      BY <1>0, <3>1, FlushOver DEF Fits
    <3>2. CASE Unsent(request, response)
      <4> no \in BOOLEAN /\ ~no
        OBVIOUS
      <4> HIDE DEF no
      <4> QED
        BY <1>0, <3>2, FlushBegins DEF Fits
    <3>3. CASE Streaming(request, response)
      <4> no \in BOOLEAN /\ ~no
        OBVIOUS
      <4> HIDE DEF no
      <4> QED
        BY <1>0, <3>3, FlushGoesOn DEF Fits
    <3> QED
      BY <1>0, <3>1, <3>2, <3>3 DEF Fits, Framable
  <2> HIDE DEF r
  <2> QED
    BY <2>1, <2>2, CallFits
<1>4. CASE Handler!AppFinish
  <2>1. PICK n \in {0, 1} : Handler!Call(Handler!Finish(response, n))
    BY <1>4 DEF Handler!AppFinish
  <2>2. Fits(Handler!Finish(response, n))
    BY <1>0, FinishFits
  <2> QED
    BY <2>1, <2>2, CallFits
<1>5. CASE Handler!AppSendError
  <2>1. PICK e \in Errors : Handler!Call(Handler!SendError(response, e))
    BY <1>5 DEF Handler!AppSendError
  <2>2. Fits(Handler!SendError(response, e))
    BY <1>0, SendErrorFits
  <2> QED
    BY <2>1, <2>2, CallFits
<1>6. CASE Handler!AppNotModified
  <2> DEFINE r == [response EXCEPT !.status = "304"]
  <2>1. Fits(r)
    BY <1>0, StatusFits
  <2> QED
    BY <1>6, <2>1, CallFits DEF Handler!AppNotModified
<1>7. CASE Handler!AppFails \/ Handler!ReturnsValue
  <2>1. \E e : Handler!Escapes(response, e)
    BY <1>7 DEF Handler!AppFails, Handler!ReturnsValue
  <2> QED
    BY <1>0, <2>1, EscapesFits
<1>8. CASE Handler!PrepareReturns
  BY <1>8, EnterMethodFits DEF Handler!PrepareReturns
<1>9. CASE Handler!MethodReturns
  <2>1. Handler!OnLoop(Handler!Finish(response, 0)) \/ response' = response
    BY <1>9 DEF Handler!MethodReturns
  <2>2. Fits(Handler!Finish(response, 0))
    BY <1>0, FinishFits
  <2> QED
    BY <1>0, <2>1, <2>2, OnLoopFits
<1>10. CASE Handler!FutureDone
  BY <1>10, FutureDoneFits
<1>11. CASE response' = response
  BY <1>0, <1>11
<1>12. Handler!ConnectionCloses \/ Handler!AppSchedule \/ Handler!ReturnsFuture
         \/ Handler!CoroutineReturns \/ Handler!CallbackReturns \/ Handler!CoroutineRuns
         \/ Handler!CallbackRuns => response' = response
  BY DEF Handler!ConnectionCloses, Handler!AppSchedule, Handler!ReturnsFuture,
         Handler!CoroutineReturns, Handler!CallbackReturns, Handler!CoroutineRuns,
         Handler!CallbackRuns
<1>13. Handler!AppWrite \/ Handler!AppRedirect =>
         \E r \in {Handler!Write(response, 1), Handler!Redirect(response)} : Handler!Call(r)
  BY DEF Handler!AppWrite, Handler!AppRedirect
<1> QED
  BY <1>1, <1>2, <1>3, <1>4, <1>5, <1>6, <1>7, <1>8, <1>9, <1>10, <1>11, <1>12, <1>13
     DEF Handler!Next, Handler!Returns

\* Nothing was sent before the first step.
LEMMA HandlerUnsent ==
  ASSUME Handler!Init
  PROVE  FramedInv
<1> DEFINE c == request.client # "http10"
           g == request.client = "gzip"
           no == FALSE
           yes == TRUE
<1>1. response = [headersWritten |-> no, finished |-> no, buffer |-> 0,
                 status |-> "200", length |-> {}, typed |-> yes,
                 gzipping |-> g, chunking |-> c,
                 wire |-> <<>>, listening |-> yes, raised |-> no]
  BY DEF Handler!Init
<1> HIDE DEF c, g, no, yes
<1>2. /\ IsRecord(response) /\ response.wire = <<>> /\ response.finished = no
      /\ response.buffer = 0 /\ response.length = {} /\ response.headersWritten = no
      /\ response.chunking = c /\ response.raised = no
  BY <1>1 DEF IsRecord
<1>3. IsResponse(response) /\ EndOK(response) /\ Unsent(request, response)
  BY <1>2, OneSent DEF IsResponse, EndOK, Unsent, c, no
<1> QED
  BY <1>2, <1>3 DEF FramedInv, Framable, no

\* What a client gets (web.py:725-818 and the transforms, web.py:2404-2480) it can
\* take apart again: for every sequence of writes, flushes, errors and futures,
\* whatever their number, one head comes first; a declared length is that of the
\* body; a body in chunks has its last chunk once, at its end, when the response
\* is finished; HEAD and a 304 that finish() sends have no body.
THEOREM ResponsesAreFramedHolds == Spec => []ResponsesAreFramed
<1>1. Init => FramedInv
  <2> SUFFICES ASSUME Init PROVE FramedInv
    OBVIOUS
  <2>1. Handler!Init
    BY DEF Init
  <2> QED
    BY <2>1, HandlerUnsent
<1>2. FramedInv /\ [Next]_vars => FramedInv'
  <2> SUFFICES ASSUME FramedInv, [Next]_vars PROVE FramedInv'
    OBVIOUS
  <2>1. CASE Handler!Next
    BY <2>1, HandlerFits
  <2>2. CASE UNCHANGED handling
    BY <2>2 DEF handling, FramedInv
  <2> QED
    BY <2>1, <2>2 DEF Next, vars
<1>3. FramedInv => ResponsesAreFramed
  <2> SUFFICES ASSUME FramedInv PROVE Framing(request, response.wire, response.finished)
    BY FramingIs
  <2>1. CASE Unsent(request, response)
    BY <2>1 DEF Unsent, Framing
  <2>2. CASE Streaming(request, response)
    <3>1. PICK head, rest : /\ IsSent(rest) /\ response.wire = <<head>> \o rest
                            /\ Partial(request, head, rest, response.chunking)
      BY <2>2 DEF Streaming
    <3>2. ~response.finished
      BY <2>2 DEF Streaming
    <3>3. Head(response.wire) = head /\ Tail(response.wire) = rest
      BY <3>1, HeadAndBody
    <3>4. Sound(request, head, rest, response.finished)
      BY <3>1, <3>2 DEF Sound, Partial
    <3> QED
      BY <3>2, <3>3, <3>4 DEF Framing
  <2>3. CASE Over(request, response)
    <3> DEFINE yes == TRUE
    <3>1. Framing(request, response.wire, yes) /\ response.finished /\ yes
      BY <2>3 DEF Over
    <3> HIDE DEF yes
    <3> QED
      BY <3>1 DEF Framing, Sound
  <2> QED
    BY <2>1, <2>2, <2>3 DEF FramedInv, Framable
<1> QED
  BY <1>1, <1>2, <1>3, PTL DEF Spec
=============================================================================
