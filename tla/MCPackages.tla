----------------------------- MODULE MCPackages -----------------------------
(***************************************************************************)
(* The packages that have no goroutines of their own: configuration,       *)
(* scorer, tokenizer, cacheindex, radix tree and eviction model.  They     *)
(* share nothing, so each behaviour exercises one of them, chosen at the   *)
(* beginning.                                                              *)
(***************************************************************************)
EXTENDS Config, Scorer, Tokenizer, CacheIndex, RadixTree, EvictionModel

CONSTANTS MaxBackends,   \* bound on the length of the list to be ranked
          RequestBlocks, \* blocks of the request it is ranked for
          MaxMessages    \* bound on the length of a conversation

VARIABLES package,       \* the package this behaviour exercises
          file,          \* configuration: << >>, or <<what the file holds>>
          states,        \* scorer: the handler's list of backend states
          chat, other    \* tokenizer: two conversations

vars == <<package, file, states, chat, other, indexVars, treeVars, modelVars>>

-----------------------------------------------------------------------------
(* The instance.                                                           *)

\* One backend with room for three prefixes, one whose capacity is zero, and
\* prompts that share a prefix, diverge, or do not fit.
MCPrompts == {<<"x">>, <<"x", "y">>, <<"z", "y">>, <<"x", "y", "z", "x">>}
MCCapacity == [b \in Backends |-> IF b = "b1" THEN 3 ELSE 0]

MCPaths == {<< >>, <<1, 2>>, <<1, 3>>}
MCSent == {<<1>>, <<1, 2>>, <<3, 4>>, <<1, 2, 5>>}
Contents == {<< >>, <<"x">>, <<"x", "y">>, <<"y", "x", "x">>}
Messages == [role : {<<"u">>}, content : Contents]

\* Lists of up to two backends with every mistake in the first of them, and one
\* list with every mistake in the other settings.
Entry(id, url, capacity, interval, maxConcurrent) ==
  [id |-> id, url |-> url, capacity |-> capacity, interval |-> interval,
   maxConcurrent |-> maxConcurrent]
First == [id : {"", "a"}, url : Urls, capacity : {0, 4}, interval : {-1, 0, 5},
          maxConcurrent : {-1, 0, 2}]
Second == {Entry(id, "absolute", 4, 0, 3) : id \in {"a", "b"}}
BackendLists == {<< >>} \cup {<<b>> : b \in First} \cup First \X Second
Settings == [listen : {"", ":80"}, blockSize : {-1, 0, 16},
             scorer : [Factors -> {<< >>, <<-1>>, <<0>>, <<3>>}],
             backends : {<<Entry("a", "absolute", 4, 0, 2)>>}]
Files == Settings \cup [listen : {":80"}, blockSize : {0}, backends : BackendLists,
                       scorer : {[f \in Factors |-> <<3>>]}]

\* The identifiers and addresses above are strings, which no prover knows.
ASSUME FileNames == {"", "a", "b", ":80"} \subseteq STRING

\* LoadConfig and NewPool rule out bounds of zero, Score guards against them.
Figures == [matched : 0..RequestBlocks, depth : 0..1, maxDepth : {2, 4},
            used : {2, 4}, capacity : {4}, healthy : BOOLEAN]
           \cup [matched : {1}, depth : 0..1, maxDepth : {0, 2}, used : {2},
                 capacity : {0, 4}, healthy : {TRUE}]

WithId(f, n) == [id |-> n, matched |-> f.matched, depth |-> f.depth,
                 maxDepth |-> f.maxDepth, used |-> f.used,
                 capacity |-> f.capacity, healthy |-> f.healthy]

Init ==
  /\ package \in {"config", "scorer", "tokenizer", "index", "tree", "model"}
  /\ file = << >>
  /\ states = << >>
  /\ chat = << >> /\ other = << >>
  /\ IndexInit /\ TreeInit /\ ModelInit

ReadFile ==
  /\ package = "config" /\ file = << >>
  /\ \E c \in Files : file' = <<c>>
  /\ UNCHANGED <<package, states, chat, other, indexVars, treeVars, modelVars>>

\* The handler builds the list in the order of the identifiers.
AddBackend ==
  /\ package = "scorer" /\ Len(states) < MaxBackends
  /\ \E f \in Figures : states' = Append(states, WithId(f, Len(states) + 1))
  /\ UNCHANGED <<package, file, chat, other, indexVars, treeVars, modelVars>>

AddMessage ==
  /\ package = "tokenizer"
  /\ \/ /\ Len(chat) < MaxMessages
        /\ \E m \in Messages : chat' = Append(chat, m)
        /\ UNCHANGED other
     \/ /\ Len(other) < MaxMessages
        /\ \E m \in Messages : other' = Append(other, m)
        /\ UNCHANGED chat
  /\ UNCHANGED <<package, file, states, indexVars, treeVars, modelVars>>

UseIndex ==
  /\ package = "index" /\ IndexNext
  /\ UNCHANGED <<package, file, states, chat, other, treeVars, modelVars>>

UseTree ==
  /\ package = "tree" /\ TreeNext
  /\ UNCHANGED <<package, file, states, chat, other, indexVars, modelVars>>

UseModel ==
  /\ package = "model" /\ ModelNext
  /\ UNCHANGED <<package, file, states, chat, other, indexVars, treeVars>>

Next == ReadFile \/ AddBackend \/ AddMessage \/ UseIndex \/ UseTree \/ UseModel

Spec == Init /\ [][Next]_vars

-----------------------------------------------------------------------------
(***************************************************************************)
(* A configuration that is accepted can be run with, and the packages'     *)
(* data keep their types: the directory's entries and sequence numbers,    *)
(* the tree's counters, which never go below zero, and the model's lists.  *)
(***************************************************************************)
TypeOK == AcceptedIsUsable(file) /\ IndexTypeOK /\ TreeTypeOK /\ ModelTypeOK

(***************************************************************************)
(* The two implementations of the scorer's policy agree on every list the  *)
(* handler may build, neither puts a backend before a better one, and no   *)
(* request and no backend makes them divide by zero.                       *)
(***************************************************************************)
RankingsAgree ==
  /\ ScoresAreNumbers(RequestBlocks, states)
  /\ OnePolicy(RequestBlocks, states)
  /\ DominatedLater(RequestBlocks, states)

(***************************************************************************)
(* The blocks two conversations have in common are the whole blocks of the *)
(* text they have in common: a conversation that goes on keeps the cache   *)
(* of its past, and no block is matched that lies behind a difference.     *)
(***************************************************************************)
MatchIsCommonText ==
  LET common == LongestCommonPrefix({Text(chat), Text(other)})
      match  == PrefixMatch(HashPrefix(chat), HashPrefix(other))
  IN  match = IF Text(chat) = Text(other) THEN Len(HashPrefix(chat))
              ELSE Len(common) \div BlockSize

(***************************************************************************)
(* The two packages nobody calls yet do as their comments say: the radix   *)
(* tree's counters and lookups match its content and its evictions follow  *)
(* the last use; the eviction model's list is in order and within bounds,  *)
(* and its confidence tells whether anything matches.                      *)
(***************************************************************************)
UnusedPackagesSound ==
  /\ [](StatsMatchTree /\ LookupIsLongest)
  /\ [](CacheListSound /\ ConfidenceTellsMatch)
  /\ EvictsLeastRecent

=============================================================================
