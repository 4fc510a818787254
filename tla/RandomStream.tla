---------------------------- MODULE RandomStream ----------------------------
(***************************************************************************)
(* RandomStream of crates/coggate-core/src/task.rs: words are cut from     *)
(* blocks that HMAC derives from a counter, and `below` draws words until  *)
(* one is not rejected.  What HMAC gives is unpredictable to a caller, so  *)
(* the value of a word is any value.  A word has WordCount values, 2^64 in *)
(* the code, and a block WordsPerBlock words, 4 in the code.               *)
(***************************************************************************)
EXTENDS Naturals, FiniteSets

CONSTANTS
    WordCount,
    WordsPerBlock,
    Uppers,         \* the bounds callers ask for
    MaxBlocks,      \* bound of the model: no more blocks are derived
    None

ASSUME StreamAssumption ==
    /\ WordCount \in Nat \ {0}
    /\ WordsPerBlock \in Nat \ {0}
    /\ Uppers \subseteq 1 .. WordCount - 1      \* a positive u64: below asserts it
    /\ MaxBlocks \in Nat
    /\ None \notin Nat

VARIABLES
    counter,    \* blocks derived so far
    cursor,     \* words taken from the current block
    upper,      \* the bound of the call in progress, or None
    result,     \* what the last call returned, or None
    limit,      \* history: the bound of the last call
    taken       \* history: the words taken, as numbers in the order of the key stream

vars == <<counter, cursor, upper, result, limit, taken>>

Words == 0 .. WordCount - 1

\* A new stream has no block: the first word derives one.
Init ==
    /\ counter = 0 /\ cursor = WordsPerBlock
    /\ upper = None /\ result = None /\ limit = None
    /\ taken = {}

\* Mutated form: the counter moves on before the block is derived from it, once
\* more than the words that are taken.
AdvanceSkipping ==
    IF cursor = WordsPerBlock
    THEN /\ counter' = counter + 2
         /\ cursor' = 1
         /\ taken' = taken \union {(counter + 1) * WordsPerBlock}
    ELSE /\ counter' = counter
         /\ cursor' = cursor + 1
         /\ taken' = taken \union {(counter - 1) * WordsPerBlock + cursor}

\* next_u64: the word at `cursor` of the block derived from `counter - 1`, or
\* the first word of the next block.
Advance ==
    IF cursor = WordsPerBlock
    THEN /\ counter' = counter + 1
         /\ cursor' = 1
         /\ taken' = taken \union {counter * WordsPerBlock}
    ELSE /\ counter' = counter
         /\ cursor' = cursor + 1
         /\ taken' = taken \union {(counter - 1) * WordsPerBlock + cursor}

\* upper.wrapping_neg() % upper
Threshold(bound) == (WordCount - bound) % bound

\* Mutated form: the first word that should be accepted is rejected.
AcceptsAbove(bound, word) == word > Threshold(bound)

Accepts(bound, word) == word >= Threshold(bound)

BeginBelow(bound) ==
    /\ upper = None
    /\ upper' = bound
    /\ limit' = bound
    /\ result' = None
    /\ UNCHANGED <<counter, cursor, taken>>

Draw(word) ==
    /\ upper # None
    /\ counter < MaxBlocks \/ cursor < WordsPerBlock
    /\ Advance
    /\ IF Accepts(upper, word) THEN result' = word % upper /\ upper' = None
                               ELSE UNCHANGED <<result, upper>>
    /\ UNCHANGED limit

Next ==
    \/ \E bound \in Uppers : BeginBelow(bound)
    \/ \E word \in Words : Draw(word)

Spec == Init /\ [][Next]_vars

-----------------------------------------------------------------------------
(***************************************************************************)
(* Properties.                                                             *)
(***************************************************************************)
\* The words that give a value.
Giving(bound, value) == {word \in Words : Accepts(bound, word) /\ word % bound = value}

\* task.rs:39 below: every value under the bound is given by equally many words,
\* and more than half of all words are accepted, so no bound makes a task more
\* likely than another or a draw long.
Unbiased ==
    upper # None =>
        /\ \A value \in 0 .. upper - 1 :
              Cardinality(Giving(upper, value)) = (WordCount - Threshold(upper)) \div upper
        /\ 2 * Threshold(upper) < WordCount

\* task.rs:23 next_u64: whatever mixture of bounds is asked for, and however many
\* words are rejected, the words taken are the first of the key stream, none
\* skipped and none used twice, and what is returned is under the bound.
EveryWordOnce ==
    /\ cursor \in 1 .. WordsPerBlock
    /\ taken = 0 .. (counter * WordsPerBlock + cursor) - WordsPerBlock - 1
    /\ result # None => result \in 0 .. limit - 1
=============================================================================
