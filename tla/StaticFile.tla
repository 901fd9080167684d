----------------------------- MODULE StaticFile -----------------------------
(***************************************************************************)
(* StaticFileHandler.get in tornado.web, with the byte ranges of           *)
(* tornado.httputil and the cache of version hashes all requests share.    *)
(* The file is not the handler's: somebody may rewrite it between any two  *)
(* of the handler's calls on it, each chunk that is read included.         *)
(*                                                                         *)
(* A file is its size and its version, and every version was written in a  *)
(* second: the times compared are whole seconds, and several versions may  *)
(* have the same.  A content is the set of its bytes, each its place and   *)
(* the version it is of; a hash stands for the content it was made of.  A  *)
(* read is ChunkSize bytes at most.                                        *)
(***************************************************************************)
EXTENDS Integers, Sequences

CONSTANTS MaxSize,    \* bound: the largest file
          MaxVersion, \* bound: how often the file is rewritten
          ChunkSize,  \* what one read of get_content asks for
          MaxGets     \* bound: requests one after the other

VARIABLES
  file,      \* the file on disk: size, version
  dates,     \* the second each version was written in
  hashes,    \* _static_hashes for this path: no entry, or one hash
  debug,     \* the debug setting: every request starts with no hashes
  copy,      \* what the client kept: Last-Modified, Etag and the versions that
             \* its bytes are of
  get,       \* the request: how it asks about the copy, and its Range header,
             \* which is looked at last
  at,        \* how far the request is
  stat,      \* _stat_result: the size and version seen by os.stat
  etag,      \* the content in the response's Etag, or what was hashed so far
  range,     \* start and end, as the slice they became
  pos,       \* where get_content reads next
  remaining, \* what it still has to read
  body,      \* bytes written
  sources,   \* the versions these bytes are of
  status,    \* of the response
  told,      \* Content-Range: first, last and size of the file
  seen,      \* the versions the file has had during the request
  gets       \* requests made (bound)

st == <<file, dates, hashes, debug, copy, get, at, stat, etag, range, pos, remaining,
        body, sources, status, told, seen, gets>>

\* No number that the header or the slice made of it can have.
None == -(MaxSize + 2)
NoRange == [unit |-> FALSE, first |-> None, last |-> None]
Ranges == {NoRange} \union
          [unit : {TRUE}, first : (0 .. MaxSize) \union {None},
           last : (0 .. MaxSize + 1) \union {None}]

\* The bytes that a read of n bytes at place p finds in version v.
Bytes(p, n, v) == {<<i, v>> : i \in p .. p + n - 1}

\* No Etag, and the hash of a file that could not be opened.
NoHash == {<<-1, -1>>}

Least(a, b) == IF a < b THEN a ELSE b
Most(a, b) == IF a > b THEN a ELSE b

Fresh ==
  /\ stat = [size |-> 0, version |-> 0] /\ etag = NoHash
  /\ range = [start |-> None, end |-> None] /\ pos = 0 /\ remaining = None
  /\ body = 0 /\ sources = {} /\ status = 200 /\ told = <<>>

\* The client has the file's first version, from before the server started.
Init ==
  /\ file \in [size : 0 .. MaxSize, version : {0}]
  /\ dates = [v \in 0 .. MaxVersion |-> 0]
  /\ debug \in BOOLEAN /\ hashes = {}
  /\ copy = [modified |-> 0, tag |-> Bytes(0, file.size, 0),
             versions |-> IF file.size = 0 THEN {} ELSE {0}]
  /\ get = [range |-> NoRange, by |-> {}]
  /\ Fresh /\ at = "new" /\ seen = {0} /\ gets = 0

\* Somebody writes the file anew, in the same second or in a later one.
Rewrite ==
  /\ file.version < MaxVersion
  /\ \E n \in 0 .. MaxSize : file' = [size |-> n, version |-> file.version + 1]
  /\ \E d \in {dates[file.version], dates[file.version] + 1} :
       dates' = [dates EXCEPT ![file.version + 1] = d]
  /\ seen' = seen \union {file.version + 1}
  /\ UNCHANGED <<hashes, debug, copy, get, at, stat, etag, range, pos, remaining, body,
                 sources, status, told, gets>>

-----------------------------------------------------------------------------
\* _parse_request_range: the slice a Range header asks for.
ParseRange(r) ==
  CASE r.first = None /\ r.last = None -> [start |-> None, end |-> None]
    [] r.first = None /\ r.last = 0 -> [start |-> None, end |-> 0]
    [] r.first = None /\ r.last > 0 -> [start |-> -r.last, end |-> None]
    [] r.first # None /\ r.last = None -> [start |-> r.first, end |-> None]
    [] OTHER -> [start |-> r.first, end |-> r.last + 1]

\* _get_content_range
ContentRange(start, end, size) ==
  [first |-> IF start = None THEN 0 ELSE start,
   last  |-> (IF end \in {None, 0} THEN size ELSE end) - 1,
   size  |-> size]

\* The client may keep the last response, if it was the whole file.
Keep ==
  \/ UNCHANGED copy
  \/ /\ at = "done" /\ status = 200
     /\ copy' = [modified |-> dates[stat.version], tag |-> etag, versions |-> sources]

\* A bug: debug mode is forgotten.
StaticHashesKept == hashes

\* Application.__call__: in debug mode every request begins with reset().
StaticHashes == IF debug THEN {} ELSE hashes

\* A request for a file that exists, with or without If-None-Match and
\* If-Modified-Since.
Get ==
  /\ at \in {"new", "done"} /\ gets < MaxGets
  /\ Keep
  /\ \E by \in SUBSET {"etag", "date"} :
       /\ "etag" \in by => copy'.tag # NoHash
       /\ get' = [range |-> NoRange, by |-> by]
  /\ at' = "stat" /\ gets' = gets + 1 /\ seen' = {file.version}
  /\ hashes' = StaticHashes
  /\ stat' = [size |-> 0, version |-> 0] /\ etag' = NoHash
  /\ range' = [start |-> None, end |-> None] /\ pos' = 0 /\ remaining' = None
  /\ body' = 0 /\ sources' = {} /\ status' = 200 /\ told' = <<>>
  /\ UNCHANGED <<file, dates, debug>>

\* get_modified_time: the one os.stat of the request.
Stat ==
  /\ at = "stat"
  /\ stat' = file /\ at' = "hash"
  /\ UNCHANGED <<file, dates, hashes, debug, copy, get, etag, range, pos, remaining, body,
                 sources, status, told, seen, gets>>

\* _get_cached_version: the Etag is the hash in the cache, or the content is read.
Hash ==
  /\ at = "hash"
  /\ IF hashes = {} THEN at' = "hashing" /\ etag' = {}
                    ELSE at' = "decide" /\ etag' \in hashes
  /\ UNCHANGED <<file, dates, hashes, debug, copy, get, stat, range, pos, remaining, body,
                 sources, status, told, seen, gets>>

\* get_content_version: one chunk more, or the end of the file.
HashChunk ==
  /\ at = "hashing"
  /\ LET n == Least(ChunkSize, Most(file.size - pos, 0)) IN
       IF n > 0
         THEN /\ etag' = etag \union Bytes(pos, n, file.version) /\ pos' = pos + n
              /\ UNCHANGED <<hashes, at>>
         ELSE hashes' = {etag} /\ at' = "decide" /\ pos' = 0 /\ UNCHANGED etag
  /\ UNCHANGED <<file, dates, debug, copy, get, stat, range, remaining, body, sources,
                 status, told, seen, gets>>

\* ... or it cannot be read: that is what the cache then says, and there is no Etag.
HashFails ==
  /\ at = "hashing"
  /\ hashes' = {NoHash} /\ etag' = NoHash /\ at' = "decide" /\ pos' = 0
  /\ UNCHANGED <<file, dates, debug, copy, get, stat, range, remaining, body, sources,
                 status, told, seen, gets>>

\* should_return_304
NotModified ==
  \/ "etag" \in get.by /\ copy.tag = etag
  \/ "date" \in get.by /\ copy.modified >= dates[stat.version]

\* The answer is this, with or without a body to be read.
Answer(code, where) ==
  /\ status' = code /\ at' = where
  /\ UNCHANGED <<file, dates, hashes, debug, copy, stat, etag, pos, remaining, body,
                 sources, seen, gets>>

\* get after the headers, for the Range header r: 416, or the slice and whether
\* it is a part.
Slice(r) ==
  LET parsed == ParseRange(r)
      size   == stat.size
      start  == IF parsed.start # None /\ parsed.start < 0 THEN parsed.start + size
                ELSE parsed.start
      end    == IF parsed.end # None /\ parsed.end > size THEN size ELSE parsed.end
      part   == ContentRange(start, end, size)
  IN IF ~r.unit
       THEN Answer(200, "open") /\ UNCHANGED <<range, told>>
     ELSE IF (parsed.start # None /\ parsed.start >= size) \/ parsed.end = 0
       THEN Answer(416, "done") /\ UNCHANGED <<range, told>>
     ELSE /\ range' = [start |-> start, end |-> end]
          /\ IF size # part.last + 1 - part.first
               THEN Answer(206, "open") /\ told' = <<part>>
               ELSE Answer(200, "open") /\ UNCHANGED told

\* A 304 comes first; only then does the handler look at the Range header.
Decide ==
  /\ at = "decide"
  /\ IF NotModified
       THEN Answer(304, "done") /\ UNCHANGED <<get, range, told>>
       ELSE \E r \in Ranges : get' = [get EXCEPT !.range = r] /\ Slice(r)

\* get_content opens the file and seeks; nobody can seek before its start.
Open ==
  /\ at = "open"
  /\ LET start == IF range.start = None THEN 0 ELSE range.start IN
       IF start < 0
         THEN status' = 500 /\ at' = "done" /\ UNCHANGED <<pos, remaining>>
         ELSE /\ pos' = start /\ at' = "read" /\ UNCHANGED status
              /\ remaining' = IF range.end = None THEN None ELSE range.end - start
  /\ UNCHANGED <<file, dates, hashes, debug, copy, get, stat, etag, range, body, sources,
                 told, seen, gets>>

\* A bug: a file that ends early is not noticed.
EndOfContentIgnored == TRUE

\* get_content's assertion, when there is no more to read.
EndOfContent == remaining = None \/ remaining = 0

\* One turn of get_content's loop.  A negative count reads to the end.
Read ==
  /\ at = "read"
  /\ LET count == IF remaining # None /\ remaining < ChunkSize THEN remaining ELSE ChunkSize
         left  == Most(file.size - pos, 0)
         n     == IF count < 0 THEN left ELSE Least(count, left)
     IN IF n > 0
          THEN /\ pos' = pos + n /\ body' = body + n
               /\ sources' = sources \union {file.version}
               /\ remaining' = IF remaining = None THEN None ELSE remaining - n
               /\ UNCHANGED <<at, status>>
          ELSE /\ at' = "done"
               /\ status' = IF EndOfContent THEN status ELSE 500
               /\ UNCHANGED <<pos, body, sources, remaining>>
  /\ UNCHANGED <<file, dates, hashes, debug, copy, get, stat, etag, range, told, seen, gets>>

Next == Rewrite \/ Get \/ Stat \/ Hash \/ HashChunk \/ HashFails \/ Decide \/ Open \/ Read

Spec == Init /\ [][Next]_st

-----------------------------------------------------------------------------
\* A part is the part that was asked for, whole (web.py:2017-2062,
\* httputil.py:254-315): the body has the length Content-Range declares, also
\* when the file is rewritten while it is read, and the part is what RFC 2616
\* makes of the range.  Without an error and a part the whole file is sent.  An
\* error means that the file changed or that the range is one the code does not
\* expect: backwards, or a suffix longer than the file.  (A part that reaches
\* to the end of a file that shrinks is cut short without an error.)
RangesAreServed ==
  LET r        == get.range
      size     == stat.size
      suffix   == r.first = None /\ r.last # None
      strange  == \/ suffix /\ r.last > size
                  \/ r.first # None /\ r.last # None /\ r.last < r.first
      first    == IF suffix THEN size - r.last ELSE Most(r.first, 0)
      last     == IF suffix \/ r.last = None THEN size - 1 ELSE Least(r.last, size - 1)
  IN at = "done" =>
       /\ status = 206 /\ ~strange =>
            /\ told = <<[first |-> first, last |-> last, size |-> size]>>
            /\ range.end # None \/ seen = {stat.version} => body = last - first + 1
       /\ status = 200 /\ seen = {stat.version} => body = size
       /\ status = 416 => IF suffix THEN r.last = 0 ELSE r.first >= size
       /\ status = 500 => strange \/ seen # {stat.version}

\* A 304 is true (web.py:2064-2119, 2347-2360, and the comment at 1797: in debug
\* mode "you don't need to restart to see changes").  By its Etag the client's
\* copy is never older than the content the hash was made of, and in debug mode it
\* is the file as it was during the request; by its date no byte of it is older
\* than the second in which the file that os.stat saw was written.  (So a file
\* rewritten twice in a second, and with debug off any file, may answer 304 to an
\* older copy; one that matches is enough when the client sends both.  An empty
\* file has the Etag of every empty file.)
NotModifiedIsTrue ==
  at = "done" /\ status = 304 =>
    \/ /\ "etag" \in get.by
       /\ \A v \in copy.versions, b \in etag : b[2] <= v
       /\ debug /\ etag # {} => copy.versions \subseteq seen
    \/ "date" \in get.by /\ \A v \in copy.versions : dates[v] >= dates[stat.version]

\* What a 304 says: the client's copy is the file as it was during the request.
\* It fails for a file rewritten twice in one second, and, with debug off, for a
\* file rewritten since its hash was made.
NotModifiedIsCurrent == at = "done" /\ status = 304 => copy.versions \subseteq seen
=============================================================================
