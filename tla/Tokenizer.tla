------------------------------ MODULE Tokenizer -----------------------------
(***************************************************************************)
(* internal/tokenizer/tokenizer.go: a conversation becomes a sequence of   *)
(* block hashes.  A text is a sequence of characters, a message a record   *)
(* [role, content] of texts.  xxhash is taken to be injective: a block     *)
(* stands for its hash.                                                    *)
(***************************************************************************)
EXTENDS Integers, Sequences, SequencesExt, FiniteSetsExt

CONSTANT BlockSize

ASSUME BlockSizeAssumption == BlockSize \in Nat \ {0}

\* text[n] is what the first n messages have written.
Text(messages) ==
  LET text[n \in 0..Len(messages)] ==
        IF n = 0 THEN << >>
        ELSE text[n - 1] \o messages[n].role \o <<":">> \o messages[n].content
  IN  text[Len(messages)]

\* The last block may be shorter.
NumBlocks(n) == (n + BlockSize - 1) \div BlockSize

\* Seeded fault: the short block comes first.
BlocksFromEnd(text) ==
  LET n == NumBlocks(Len(text))
  IN  [k \in 1..n |-> SubSeq(text, Max({Len(text) - (n - k + 1) * BlockSize, 0}) + 1,
                             Len(text) - (n - k) * BlockSize)]

BlocksOf(text) ==
  [k \in 1..NumBlocks(Len(text)) |->
     SubSeq(text, (k - 1) * BlockSize + 1, Min({k * BlockSize, Len(text)}))]

HashPrefix(messages) == BlocksOf(Text(messages))

PrefixMatch(a, b) ==
  Max({n \in 0..Min({Len(a), Len(b)}) : \A k \in 1..n : a[k] = b[k]})

=============================================================================
