------------------------------- MODULE Config -------------------------------
(***************************************************************************)
(* internal/config/config.go, and what cmd/kv-router/main.go and NewPool   *)
(* (internal/backend/pool.go) make of its result.  The other modules take  *)
(* limits, capacities, weights and the block size as constants; this one   *)
(* shows that their assumptions hold for every file the program accepts.   *)
(*                                                                         *)
(* A decoded file is a record [listen, blockSize, scorer, backends].  An   *)
(* address is "" or not, a URL is "absolute" (http or https, with a host)  *)
(* or one of the wrong kinds, and a weight is <<n>>, a number of units, or *)
(* << >> when it is not finite.  Ten units are 1.0.                        *)
(***************************************************************************)
EXTENDS Integers, Sequences

Factors == {"hit", "queue", "risk"}
Urls == {"", "unparsable", "relative", "absolute"}
Weights == {<< >>} \cup {<<n>> : n \in Int}

BackendEntries ==
  [id : STRING, url : Urls, capacity : Int, interval : Int, maxConcurrent : Int]

Decoded ==
  [listen : STRING, blockSize : Int, scorer : [Factors -> Weights],
   backends : Seq(BackendEntries)]

-----------------------------------------------------------------------------
(* LoadConfig.                                                             *)

DefaultBlockSize == 64

DefaultWeights ==
  [f \in Factors |-> CASE f = "hit" -> <<10>> [] f = "queue" -> <<5>> [] f = "risk" -> <<3>>]

\* Weights are defaulted together, if all of them are missing or zero.
Defaulted(c) ==
  [listen |-> c.listen,
   blockSize |-> IF c.blockSize = 0 THEN DefaultBlockSize ELSE c.blockSize,
   scorer |-> IF \A f \in Factors : c.scorer[f] = <<0>> THEN DefaultWeights ELSE c.scorer,
   backends |-> c.backends]

BackendValid(b) ==
  /\ b.id # "" /\ b.url = "absolute"
  /\ b.capacity > 0 /\ b.interval >= 0 /\ b.maxConcurrent >= 0

\* Seeded fault: a repeated identifier is not noticed.
ValidateEach(c) ==
  /\ c.listen # "" /\ c.backends # << >> /\ c.blockSize > 0
  /\ \A i \in DOMAIN c.backends : BackendValid(c.backends[i])
  /\ \A f \in Factors : c.scorer[f] # << >> /\ c.scorer[f][1] >= 0

Validate(c) ==
  /\ c.listen # "" /\ c.backends # << >> /\ c.blockSize > 0
  /\ \A i \in DOMAIN c.backends :
       /\ BackendValid(c.backends[i])
       /\ \A j \in DOMAIN c.backends : c.backends[i].id = c.backends[j].id => i = j
  /\ \A f \in Factors : c.scorer[f] # << >> /\ c.scorer[f][1] >= 0

\* << >> for an error.  A file that cannot be read or decoded is << >> too.
LoadConfig(file) ==
  IF file # << >> /\ Validate(Defaulted(file[1])) THEN <<Defaulted(file[1])>> ELSE << >>

-----------------------------------------------------------------------------
(* NewPool, which checks again, and has defaults of its own.               *)

DefaultMaxConcurrent == 64
DefaultInterval == 10

PoolAccepts(backends) ==
  \A i \in DOMAIN backends :
    /\ backends[i].id # "" /\ backends[i].url = "absolute"
    /\ \A j \in DOMAIN backends : backends[i].id = backends[j].id => i = j

\* The entry of a backend in the pool's maps.
Pooled(b) ==
  [limit |-> IF b.maxConcurrent <= 0 THEN DefaultMaxConcurrent ELSE b.maxConcurrent,
   interval |-> IF b.interval <= 0 THEN DefaultInterval ELSE b.interval]

NewPool(backends) ==
  [id \in {backends[i].id : i \in DOMAIN backends} |->
     Pooled(backends[CHOOSE i \in DOMAIN backends : backends[i].id = id])]

-----------------------------------------------------------------------------
(***************************************************************************)
(* A file that LoadConfig accepts can be run with: main gets a pool for    *)
(* it, in which each backend has the limit and the interval of its own     *)
(* entry, and the block size, the capacities, the limits and the weights   *)
(* are such as the modules of the other packages assume.                   *)
(***************************************************************************)
Usable(c) ==
  /\ PoolAccepts(c.backends)
  /\ DOMAIN c.backends # {}
  /\ \A i \in DOMAIN c.backends :
       LET b == c.backends[i] IN
       /\ b.capacity \in Nat \ {0}
       /\ NewPool(c.backends)[b.id] = Pooled(b)
       /\ Pooled(b).limit \in Nat \ {0} /\ Pooled(b).interval \in Nat \ {0}
  /\ c.blockSize \in Nat \ {0}
  /\ \A f \in Factors : c.scorer[f] # << >> /\ c.scorer[f][1] \in Nat

AcceptedIsUsable(file) == LoadConfig(file) # << >> => Usable(LoadConfig(file)[1])

=============================================================================
