---------------------------- MODULE PatternMatch ----------------------------
(***************************************************************************)
(* How a permission is matched with a name (harness-permission): two loops *)
(* over a pattern and a value.  wildcard_match, for servers, tools and     *)
(* hosts, goes through both and back to the last star; rule_wildcard_match, *)
(* for the patterns of rules, fills a table row by row.  Both are compared *)
(* with what their patterns mean: a word of the language of the pattern.   *)
(*                                                                         *)
(* A letter is one of a few; case, which the first loop ignores, is left   *)
(* out.                                                                    *)
(***************************************************************************)
EXTENDS Integers, Sequences

CONSTANTS
  Letter,     \* characters, the slash among them
  MaxPattern, \* bound on the length of patterns
  MaxValue    \* bound on the length of values

VARIABLES
  of,       \* the function that was called
  loop,     \* the loop that runs, or that it has ended
  pattern, value,
  vi, pi,   \* value_index and pattern_index
  star, checkpoint,
  matches,  \* the table: pairs of indexes that have been reached
  verdict

vars == <<of, loop, pattern, value, vi, pi, star, checkpoint, matches, verdict>>

Slash == "/"

UpTo(s, n) == UNION {[1..k -> s] : k \in 0..n}

TypeOK ==
  /\ of \in {"wildcard", "rule"} /\ loop \in {"match", "trail", "ended"}
  /\ pattern \in UpTo(Letter \cup {"*", "?"}, MaxPattern)
  /\ value \in UpTo(Letter, MaxValue)
  /\ vi \in 0..MaxValue /\ pi \in 0..MaxPattern
  /\ star \in -1..MaxPattern /\ checkpoint \in 0..MaxValue
  /\ matches \subseteq (0..MaxPattern) \X (0..MaxValue)
  /\ verdict \in BOOLEAN

Init ==
  /\ of \in {"wildcard", "rule"} /\ loop = "match"
  /\ pattern \in UpTo(Letter \cup {"*", "?"}, MaxPattern)
  /\ of = "rule" \/ \A i \in DOMAIN pattern : pattern[i] # "?"
  /\ value \in UpTo(Letter, MaxValue)
  /\ vi = 0 /\ pi = 0 /\ star = -1 /\ checkpoint = 0
  /\ matches = {<<0, 0>>} /\ verdict = FALSE

-----------------------------------------------------------------------------
(* wildcard_match.                                                          *)

More == pi < Len(pattern)

Same == More /\ pattern[pi + 1] = value[vi + 1]

Advance ==
  /\ Same /\ vi' = vi + 1 /\ pi' = pi + 1
  /\ UNCHANGED <<loop, star, checkpoint, verdict>>

AtStar ==
  /\ ~Same /\ More /\ pattern[pi + 1] = "*"
  /\ star' = pi /\ pi' = pi + 1 /\ checkpoint' = vi
  /\ UNCHANGED <<loop, vi, verdict>>

(* Faulty: the value is gone on with from where it failed.                  *)
GoOn == vi + 1

(* The star takes one character more.                                       *)
Back == checkpoint + 1

Retry ==
  /\ ~Same /\ ~(More /\ pattern[pi + 1] = "*") /\ star # -1
  /\ pi' = star + 1 /\ checkpoint' = checkpoint + 1 /\ vi' = Back
  /\ UNCHANGED <<loop, star, verdict>>

Fail ==
  /\ ~Same /\ ~(More /\ pattern[pi + 1] = "*") /\ star = -1
  /\ loop' = "ended" /\ verdict' = FALSE
  /\ UNCHANGED <<vi, pi, star, checkpoint>>

Wildcard ==
  /\ of = "wildcard" /\ loop = "match" /\ UNCHANGED <<of, pattern, value, matches>>
  /\ IF vi < Len(value) THEN Advance \/ AtStar \/ Retry \/ Fail
     ELSE loop' = "trail" /\ UNCHANGED <<vi, pi, star, checkpoint, verdict>>

(* The stars that are left match nothing.                                   *)
Trail ==
  /\ loop = "trail" /\ UNCHANGED <<of, pattern, value, vi, star, checkpoint, matches>>
  /\ IF More /\ pattern[pi + 1] = "*"
     THEN pi' = pi + 1 /\ UNCHANGED <<loop, verdict>>
     ELSE loop' = "ended" /\ verdict' = (pi = Len(pattern)) /\ UNCHANGED pi

-----------------------------------------------------------------------------
(* rule_wildcard_match.                                                     *)

Double == pi + 1 < Len(pattern) /\ pattern[pi + 1] = "*" /\ pattern[pi + 2] = "*"

(* Faulty: a star takes a slash too.                                        *)
TakesAny(v) == v < Len(value)

(* What a star may take after the first v characters of the value.          *)
Takes(v) == v < Len(value) /\ (Double \/ value[v + 1] # Slash)

(* Those after which the rest of the pattern may go on: a star goes on from *)
(* each character to the next as long as it takes them.                     *)
Starred == {v \in 0..Len(value) :
  \E u \in 0..v : <<pi, u>> \in matches /\ \A w \in u..(v - 1) : Takes(w)}

Stepped(c) == {v \in 1..Len(value) :
  /\ <<pi, v - 1>> \in matches
  /\ IF c = "?" THEN value[v] # Slash ELSE value[v] = c}

(* One row of the table.                                                    *)
Row ==
  /\ of = "rule" /\ loop = "match" /\ UNCHANGED <<of, pattern, value, vi, star, checkpoint>>
  /\ IF ~More
     THEN /\ loop' = "ended" /\ UNCHANGED <<pi, matches>>
          /\ verdict' = (<<Len(pattern), Len(value)>> \in matches)
     ELSE /\ UNCHANGED <<loop, verdict>>
          /\ LET c == pattern[pi + 1]
                 next == pi + IF Double THEN 2 ELSE 1
             IN /\ pi' = next
                /\ matches' = matches \cup
                     {<<next, v>> : v \in IF c = "*" THEN Starred ELSE Stepped(c)}

Next == Wildcard \/ Trail \/ Row

Spec == Init /\ [][Next]_vars

-----------------------------------------------------------------------------
(* Properties.                                                              *)

(* What a pattern means: its characters are shared out over pieces of the   *)
(* value, in order.  A letter is itself and a question mark a character     *)
(* that is no slash; a star is a run of them, a star beside another one, or *)
(* of the first function, a run of any characters.                          *)
Fits(p, v) ==
  LET n == Len(p)
      free(i) == \/ of = "wildcard"
                 \/ \E j \in {i - 1, i + 1} \cap (1..n) : p[j] = "*"
  IN \E cut \in [0..n -> 0..Len(v)] :
       /\ cut[0] = 0 /\ cut[n] = Len(v)
       /\ \A i \in 1..n :
            LET piece == (cut[i - 1] + 1)..cut[i] IN
            /\ cut[i - 1] <= cut[i]
            /\ p[i] = "*" => free(i) \/ \A j \in piece : v[j] # Slash
            /\ p[i] # "*" => /\ cut[i] = cut[i - 1] + 1
                             /\ IF p[i] = "?" THEN v[cut[i]] # Slash ELSE v[cut[i]] = p[i]

(* lib.rs:909, 1230: both functions answer what their patterns mean.        *)
MatchIsRight == loop = "ended" => verdict = Fits(pattern, value)
=============================================================================
