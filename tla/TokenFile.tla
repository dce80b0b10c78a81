----------------------------- MODULE TokenFile -----------------------------
(***************************************************************************)
(* A token file and the relay that re-reads it (src/distllm/auth.py,       *)
(* TokenSet).  The relay looks at the modification time, and reads the     *)
(* file in a step of its own; an editor replaces the file at once or       *)
(* rewrites it in place, so that a part of it is there for a while.  Every *)
(* edit has a modification time of its own.                                *)
(***************************************************************************)
EXTENDS Naturals, Sequences, SequencesExt

CONSTANTS
    Tokens,
    FirstFile,      \* the tokens the relay starts with
    MaxEdits,       \* bound: edits begin only up to this time
    InPlace,        \* the file may be rewritten in place
    Whole           \* nothing is left to be written

ASSUME TokenAssumption ==
    /\ FirstFile \in Seq(Tokens)
    /\ MaxEdits \in Nat
    /\ Whole \notin Seq(Tokens)

VARIABLES
    file,       \* the tokens in the file, in order
    readable,   \* the file can be read
    mtime,      \* its modification time
    rest,       \* what the file will contain when it is rewritten, or Whole
    accepted,   \* TokenSet._tokens
    seen,       \* TokenSet._mtime
    reading,    \* modification times of a reload between stat and read
    due,        \* RELOAD_INTERVAL has passed since the last reload
    torn        \* the tokens are those of a file that was being rewritten

tokenVars == <<file, readable, mtime, rest, accepted, seen, reading, due, torn>>

TokenInit ==
    /\ file = FirstFile
    /\ readable = TRUE
    /\ mtime = 0
    /\ rest = Whole
    /\ accepted = ToSet(FirstFile)
    /\ seen = 0
    /\ reading = {}
    /\ due = FALSE
    /\ torn = FALSE

relayTokens == <<accepted, seen, reading, due, torn>>
-----------------------------------------------------------------------------
(* The file *)

Edited(tokens) ==
    /\ mtime' = mtime + 1
    /\ file' = tokens
    /\ UNCHANGED readable

\* The file is replaced, or a rewrite begins with a part of it.
Edit(tokens) ==
    /\ rest = Whole
    /\ mtime < MaxEdits
    /\ \/ Edited(tokens) /\ rest' = Whole
       \/ /\ InPlace
          /\ \E part \in Prefixes(tokens) \ {tokens} : Edited(part)
          /\ rest' = tokens
    /\ UNCHANGED relayTokens

EndEdit ==
    /\ rest # Whole
    /\ Edited(rest)
    /\ rest' = Whole
    /\ UNCHANGED relayTokens

\* The file cannot be read for a while, or can again.
Glitch ==
    /\ readable' = ~readable
    /\ UNCHANGED <<file, mtime, rest, relayTokens>>
-----------------------------------------------------------------------------
(* The relay *)

Interval ==
    /\ ~due
    /\ reading = {}
    /\ due' = TRUE
    /\ UNCHANGED <<file, readable, mtime, rest, accepted, seen, reading, torn>>

\* The first half of _reload, in the request that finds it due: a file that
\* cannot be read, or did not change, leaves the tokens as they are.
Stat ==
    /\ due
    /\ due' = FALSE
    /\ reading' = IF readable /\ mtime # seen THEN {mtime} ELSE {}
    /\ UNCHANGED <<file, readable, mtime, rest, accepted, seen, torn>>

\* Mutant: the modification time is kept before the file is read.
StampedFirst(time) == time

\* A modification time is kept with the tokens that were read after it.
Stamped(time) == IF readable THEN time ELSE seen

\* The second half: the tokens of the file, if it can still be read.
Reread ==
    \E time \in reading :
        /\ reading' = {}
        /\ accepted' = IF readable THEN ToSet(file) ELSE accepted
        /\ seen' = Stamped(time)
        /\ torn' = IF readable THEN rest # Whole ELSE torn
        /\ UNCHANGED <<file, readable, mtime, rest, due>>

\* TokenSet.accepts is asked after the reload.
Asked == reading = {} /\ ~due

\* Mutant: only the token that clients send is accepted.
AcceptsFirst(token) == file # <<>> /\ token = Head(file)

Accepts(token) == token \in accepted

Reload == Interval \/ Stat \/ Reread
Editor == EndEdit \/ Glitch
-----------------------------------------------------------------------------
\* Tokens kept with a modification time are those the file had at that time, as
\* long as it has it: no change is missed for good, whatever is edited or cannot
\* be read between stat and read.
CacheCoherent == seen = mtime => accepted = ToSet(file)
=============================================================================
