---------------------------- MODULE LruDirectory ----------------------------
(***************************************************************************)
(* What the cache directory promises: per backend, a list of at most       *)
(* Capacity[b] prefix keys ordered by their last commit.  A commit moves   *)
(* or adds every prefix of a prompt, shortest first, to the new end of the *)
(* list and drops what exceeds the capacity from the old end.  CacheIndex  *)
(* implements this with maps, timestamps and sequence numbers; Router uses *)
(* it as the directory its requests share.                                 *)
(***************************************************************************)
EXTENDS Recency

CONSTANTS Backends,    \* identifiers of the configured backends
          Namespaces,  \* one per model name: "chat:" + model
          Blocks,      \* hashes of the tokenizer's text blocks
          Prompts,     \* the block sequences requests carry
          Capacity     \* Capacity[b]: blocks the directory keeps for b

ASSUME PromptAssumption ==
  \A p \in Prompts : p \in Seq(Blocks) /\ p # << >>

VARIABLE recency       \* recency[b]: <<namespace, prefix>> keys, newest last

Match(b, ns, p) == MatchLength(ToSet(recency[b]), ns, p)
Used(b) == Len(recency[b])

LruInit == recency = [b \in Backends |-> << >>]

CommitObservation(b, ns, p) ==
  /\ Capacity[b] > 0
  /\ recency' = [recency EXCEPT ![b] = Newest(Touch(@, ns, p), Capacity[b])]

(***************************************************************************)
(* Registering a backend again forgets what was known about it.            *)
(***************************************************************************)
Forget(b) == recency' = [recency EXCEPT ![b] = << >>]

LruNext ==
  \E b \in Backends :
    \/ Forget(b)
    \/ \E ns \in Namespaces, p \in Prompts : CommitObservation(b, ns, p)

LruSpec == LruInit /\ [][LruNext]_recency

=============================================================================
