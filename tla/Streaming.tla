------------------------------ MODULE Streaming ------------------------------
(***************************************************************************)
(* Players of media files and the service worker all tabs share.  A player  *)
(* resolves the file's metadata and, when it is encrypted in counter mode,  *)
(* registers its key with the worker under the file's IPNS name; the media  *)
(* element then asks for byte ranges, which the worker cuts out of the      *)
(* encrypted file it fetches once and keeps.                                *)
(*                                                                         *)
(* A byte of a ciphertext is known by the key, the counter block and the    *)
(* place in that block it was encrypted at: it decrypts to its plaintext    *)
(* when it is decrypted there again, and to garbage anywhere else.          *)
(***************************************************************************)
EXTENDS Integers, Sequences, FiniteSets, SequencesExt

CONSTANTS
    Players,        \* preview dialogs, in one tab or in several
    Names,          \* IPNS names of media files
    Versions,       \* contents a file may have, each with its own key and CID
    Ctr,            \* those encrypted in counter mode
    SizeOf,         \* version -> bytes of the file
    Block,          \* bytes of a cipher block (16 in the code)
    Chunk,          \* bytes encrypted by one call (CHUNK_SIZE)
    CacheSize,      \* MAX_CACHE_ENTRIES
    MaxMediaMishaps \* bound: replaced files, stopped workers, closed tabs

ASSUME StreamAssumption ==
    /\ Ctr \subseteq Versions /\ Versions # {} /\ 0 \notin Versions
    /\ SizeOf \in [Versions -> Nat \ {0}]
    /\ {Block, CacheSize} \subseteq Nat \ {0} /\ Chunk \in Nat \ {0} /\ MaxMediaMishaps \in Nat
    /\ Chunk % Block = 0

-----------------------------------------------------------------------------
(* Counter mode *)

Bytes(v) == 0 .. SizeOf[v] - 1

(* Mistake: each chunk starts at counter zero *)
CounterFromZero(i) == (i % Chunk) \div Block

(* encryptFileCtr: each chunk starts at the counter of its own offset       *)
CounterAt(i) == LET offset == (i \div Chunk) * Chunk
                IN  offset \div Block + (i - offset) \div Block
Encrypted(v) == [i \in Bytes(v) |->
                    [key |-> v, counter |-> CounterAt(i), at |-> (i % Chunk) % Block, plain |-> i]]

Garbage == -1
Decrypted(byte, key, counter, at) ==
    IF byte.key = key /\ byte.counter = counter /\ byte.at = at THEN byte.plain ELSE Garbage

(* decryptAesCtr: the whole of a file, from counter 0                       *)
DecryptAll(data, size, key) ==
    [n \in 1..size |-> Decrypted(data[n - 1], key, (n - 1) \div Block, (n - 1) % Block)]

AlignedEnd(end, size) == LET e == (end \div Block + 1) * Block IN IF e < size THEN e ELSE size

(* decryptRange: the bytes start..end of data, of which there are size      *)
DecryptRange(data, size, key, start, end) ==
    LET startBlock == start \div Block
        from == startBlock * Block
        to == AlignedEnd(end, size)
        slice == [j \in 0 .. to - from - 1 |->
                    Decrypted(data[from + j], key, startBlock + j \div Block, j % Block)]
        wanted == end - start + 1
        there == to - start
    IN  [n \in 1 .. (IF wanted < there THEN wanted ELSE there) |-> slice[start - from + n - 1]]

(* decryptAesCtrRange of the crypto package, which clamps the range itself  *)
DecryptAesCtrRange(data, size, key, start, end) ==
    LET last == IF end < size THEN end ELSE size - 1
    IN  IF last < start THEN <<>> ELSE DecryptRange(data, size, key, start, last)

(* Range headers: none at all, the last bytes, or from a byte on            *)
NoEnd == -1
Ranges(limit) ==
    {[kind |-> "none"]} \cup [kind : {"suffix"}, length : 0..limit]
    \cup [kind : {"from"}, start : 0..limit, end : {NoEnd} \cup 0..limit]

(* The whole file if no range is asked for                                  *)
RangeStatus(range) == IF range.kind = "none" THEN 200 ELSE 206
Start(range, total) ==
    CASE range.kind = "none" -> 0
      [] range.kind = "from" -> range.start
      [] range.kind = "suffix" -> IF range.length < total THEN total - range.length ELSE 0
End(range, total) ==
    IF range.kind = "from" /\ range.end # NoEnd /\ range.end < total THEN range.end
    ELSE total - 1

(* handleDecryptStream once it has the encrypted file: version v's key on   *)
(* the bytes of version w                                                   *)
Answer(range, v, w) ==
    LET start == Start(range, SizeOf[v])
        end == End(range, SizeOf[v])
    IN  IF start > end THEN [status |-> 416, body |-> <<>>]
        ELSE [status |-> RangeStatus(range),
              body |-> DecryptRange(Encrypted(w), SizeOf[w], v, start, end)]

-----------------------------------------------------------------------------
VARIABLES
    current,     \* name -> the version its record names
    player,      \* player -> what its dialog does
    registry,    \* worker: name -> the version whose key is registered, or 0
    swCache,     \* worker: encrypted files, oldest first
    fetches,     \* worker: fetches under way
    based,       \* worker: it knows the API's address
    crossed,     \* history: names with two players, or closed during a fetch
    abandoned,   \* history: names whose tab was closed while they played
    stopped,     \* history: the worker has been stopped
    mediaMishaps

worker == <<registry, swCache, fetches, based>>
mediaHistory == <<crossed, abandoned, stopped, mediaMishaps>>
mediaVars == <<current, player, worker, mediaHistory>>

Entry == [name : Names, version : Versions]
State == {"closed", "checking", "unwrapping", "streaming", "loading", "blob", "failed"}
Player == [st : State, name : Names, version : Versions \cup {0}]

FirstVersion == CHOOSE v \in Versions : TRUE

MediaInit ==
    /\ current = [n \in Names |-> FirstVersion]
    /\ player \in [Players -> {[st |-> "closed", name |-> n, version |-> 0] : n \in Names}]
    /\ \A p, q \in Players : player[p].name = player[q].name
    /\ registry = [n \in Names |-> 0] /\ swCache = <<>> /\ fetches = {} /\ based = TRUE
    /\ crossed = {} /\ abandoned = {} /\ stopped = FALSE /\ mediaMishaps = 0

Sets(p, st, v) == player' = [player EXCEPT ![p].st = st, ![p].version = v]
Plays(p, n) == player[p].st # "closed" /\ player[p].name = n

-----------------------------------------------------------------------------
(* The player *)

(* The dialog opens; with no worker in control it takes the whole file      *)
Open(p, n) ==
    /\ player[p].st = "closed"
    /\ \E st \in {"checking", "loading"} :
        player' = [player EXCEPT ![p] = [st |-> st, name |-> n, version |-> 0]]
    /\ crossed' = crossed \cup {m \in {n} : \E q \in Players \ {p} : Plays(q, n)}
    /\ UNCHANGED <<current, worker, abandoned, stopped, mediaMishaps>>

(* useStreamingPreview has the metadata                                     *)
Resolved(p) ==
    /\ player[p].st = "checking"
    /\ LET v == current[player[p].name]
       IN  IF v \in Ctr THEN Sets(p, "unwrapping", v) ELSE Sets(p, "loading", 0)
    /\ UNCHANGED <<current, worker, mediaHistory>>

(* The file's key is open: the stream is registered at once                 *)
Unwrapped(p) ==
    /\ player[p].st = "unwrapping"
    /\ Sets(p, "streaming", player[p].version)
    /\ registry' = [registry EXCEPT ![player[p].name] = player[p].version]
    /\ UNCHANGED <<current, swCache, fetches, based, mediaHistory>>

(* useFilePreview: the whole file, with the key wrapped for this user       *)
Loaded(p) ==
    /\ player[p].st = "loading"
    /\ Sets(p, "blob", current[player[p].name])
    /\ UNCHANGED <<current, worker, mediaHistory>>

(* Also for whoever a counter mode file was shared with: its metadata has   *)
(* the key wrapped for the owner, and the whole file is not offered instead *)
SetUpFails(p) ==
    /\ player[p].st \in {"checking", "unwrapping", "loading"}
    /\ Sets(p, "failed", 0)
    /\ UNCHANGED <<current, worker, mediaHistory>>

(* unregister-stream: the cache is a Map, with one entry of a name at most  *)
Fetching(n) == \E q \in fetches : q.name = n
Slots(n) == {i \in DOMAIN swCache : swCache[i].name = n}
Unregister(n) ==
    /\ registry' = [registry EXCEPT ![n] = 0]
    /\ swCache' = IF Slots(n) = {} THEN swCache ELSE RemoveAt(swCache, CHOOSE i \in Slots(n) : TRUE)
    /\ crossed' = crossed \cup {m \in {n} : Fetching(n)}

(* Closing the dialog cancels what it waits for, and unregisters a stream   *)
(* it has registered                                                        *)
ClosePlayer(p) ==
    /\ player[p].st # "closed"
    /\ Sets(p, "closed", 0)
    /\ IF player[p].st = "streaming" THEN Unregister(player[p].name)
       ELSE UNCHANGED <<registry, swCache, crossed>>
    /\ UNCHANGED <<current, fetches, based, abandoned, stopped, mediaMishaps>>

(* The tab is closed or loaded again: no cleanup runs.  A new page tells    *)
(* the worker the API's address                                             *)
Abandon(p) ==
    /\ player[p].st # "closed" /\ mediaMishaps < MaxMediaMishaps
    /\ Sets(p, "closed", 0)
    /\ based' = TRUE
    /\ abandoned' = abandoned \cup {player[p].name}
    /\ mediaMishaps' = mediaMishaps + 1
    /\ UNCHANGED <<current, registry, swCache, fetches, crossed, stopped>>

-----------------------------------------------------------------------------
(* The worker *)

Cached(n) == {e \in ToSet(swCache) : e.name = n}

(* The media element asks: without a key it is answered 404, with the file  *)
(* in the cache at once                                                     *)
RangeRequest(p) ==
    /\ player[p].st = "streaming" /\ registry[player[p].name] # 0
    /\ Cached(player[p].name) = {}
    /\ fetches' = fetches \cup {[name |-> player[p].name, version |-> registry[player[p].name]]}
    /\ UNCHANGED <<current, player, registry, swCache, based, mediaHistory>>

(* cacheSet: a full cache loses its oldest entry first                      *)
Room == IF Len(swCache) >= CacheSize THEN Tail(swCache) ELSE swCache
CacheSet(e) ==
    swCache' = IF \E i \in DOMAIN Room : Room[i].name = e.name
             THEN [i \in DOMAIN Room |-> IF Room[i].name = e.name THEN e ELSE Room[i]]
             ELSE Append(Room, e)

(* The encrypted file of the request's own CID has been read to its end     *)
FetchArrives ==
    /\ based
    /\ \E q \in fetches : CacheSet(q) /\ fetches' = fetches \ {q}
    /\ UNCHANGED <<current, player, registry, based, mediaHistory>>

(* A timeout, an expired token (nobody listens for token-expired), an error *)
FetchFails ==
    /\ \E q \in fetches : fetches' = fetches \ {q}
    /\ UNCHANGED <<current, player, registry, swCache, based, mediaHistory>>

(* The browser stops a worker that has nothing to do; the next event starts *)
(* it with an empty memory                                                  *)
WorkerStops ==
    /\ fetches = {} /\ mediaMishaps < MaxMediaMishaps
    /\ registry' = [n \in Names |-> 0] /\ swCache' = <<>> /\ based' = FALSE
    /\ stopped' = TRUE /\ mediaMishaps' = mediaMishaps + 1
    /\ UNCHANGED <<current, player, fetches, crossed, abandoned>>

(* A version is restored, or another device writes the file                 *)
Replace(n, v) ==
    /\ v # current[n] /\ mediaMishaps < MaxMediaMishaps
    /\ current' = [current EXCEPT ![n] = v]
    /\ mediaMishaps' = mediaMishaps + 1
    /\ UNCHANGED <<player, worker, crossed, abandoned, stopped>>

MediaNext ==
    \/ \E p \in Players :
        \/ \E n \in Names : Open(p, n)
        \/ Resolved(p) \/ Unwrapped(p) \/ Loaded(p) \/ SetUpFails(p)
        \/ ClosePlayer(p) \/ Abandon(p) \/ RangeRequest(p)
    \/ FetchArrives \/ FetchFails \/ WorkerStops
    \/ \E n \in Names, v \in Versions : Replace(n, v)

MediaSpec == MediaInit /\ [][MediaNext]_mediaVars

-----------------------------------------------------------------------------
(* Properties *)

(* What the worker's declarations say of its memory                         *)
MediaTypeOK ==
    /\ current \in [Names -> Versions] /\ player \in [Players -> Player]
    /\ registry \in [Names -> Ctr \cup {0}]
    /\ swCache \in Seq(Entry) /\ Len(swCache) <= CacheSize
    /\ fetches \subseteq Entry /\ based \in BOOLEAN
    /\ crossed \subseteq Names /\ abandoned \subseteq Names
    /\ stopped \in BOOLEAN /\ mediaMishaps \in 0..MaxMediaMishaps

(* The bytes a range of a file of total bytes names, in order               *)
Named(range, total) ==
    {i \in 0 .. total - 1 :
        CASE range.kind = "none" -> TRUE
          [] range.kind = "suffix" -> i >= total - range.length
          [] range.kind = "from" -> range.start <= i /\ (range.end = NoEnd \/ i <= range.end)}

Right(answer, range, total) ==
    IF Named(range, total) = {} THEN answer.status = 416
    ELSE /\ answer.status = RangeStatus(range)
         /\ ToSet(answer.body) = Named(range, total)
         /\ \A i, j \in DOMAIN answer.body : i < j => answer.body[i] < answer.body[j]

(* Whatever range of a registered file the media element asks for, the      *)
(* worker (handleDecryptStream with what is in its cache) answers exactly   *)
(* those bytes of the version registered, and so do decryptAesCtrRange of   *)
(* the crypto package and a download of the whole file - unless the name    *)
(* was closed while it was being fetched, or played twice at a time or by a *)
(* tab that was closed, so that the cache may hold the file of another      *)
(* version than the key                                                     *)
RangesRight ==
    \A e \in ToSet(swCache) :
        registry[e.name] # 0 /\ e.name \notin crossed \cup abandoned =>
            \A range \in Ranges(SizeOf[e.version] + 1) :
                LET v == registry[e.name]
                    answer == Answer(range, v, e.version)
                IN  /\ Right(answer, range, SizeOf[v])
                    /\ range.kind = "from" /\ range.end >= range.start =>
                        DecryptAesCtrRange(Encrypted(v), SizeOf[v], v, range.start, range.end)
                            = answer.body
                    /\ range.kind = "none" =>
                        DecryptAll(Encrypted(v), SizeOf[v], v) = answer.body

(* A player that streams finds its key in the worker, whatever others do -  *)
(* unless the browser has stopped the worker, or another player of the same *)
(* file has been closed                                                     *)
StreamsRegistered ==
    stopped \/ \A p \in Players :
        player[p].st = "streaming" /\ player[p].name \notin crossed =>
            registry[player[p].name] = player[p].version

(* The worker keeps a file's key for as long as a dialog plays it: however  *)
(* a dialog is closed while its file is being looked up (the cancelled      *)
(* checks of useStreamingPreview), no key is left - but by a closed tab     *)
KeysForgotten ==
    \A n \in Names \ abandoned :
        registry[n] # 0 => \E p \in Players : player[p].st = "streaming" /\ player[p].name = n
=============================================================================
