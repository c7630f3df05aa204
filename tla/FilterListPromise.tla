-------------------------- MODULE FilterListPromise --------------------------
(***************************************************************************)
(* What the store of filter lists promises to the browser that starts from *)
(* it: one complete, valid set of lists is selected, the one before it is  *)
(* kept to fall back to, a write takes effect as a whole or not at all     *)
(* wherever it is cut short, and only a damaged file makes a reader fall   *)
(* back.                                                                   *)
(***************************************************************************)
EXTENDS Naturals

CONSTANTS
  Sets,   \* the sets of lists that may be published
  None    \* no set: the lists built into the browser

VARIABLES
  selected,  \* what a browser that starts now runs
  fallback,  \* what it would run if the selected set were damaged
  write,     \* the write in progress: what it found and what it publishes
  damages    \* how many files were damaged so far

promiseVars == <<selected, fallback, write, damages>>

PromiseInit ==
  /\ selected \in Sets \cup {None}
  /\ fallback = None
  /\ write = None
  /\ damages = 0

BeginSet ==
  /\ write = None
  /\ write' \in [from: {selected}, to: Sets]
  /\ UNCHANGED <<selected, fallback, damages>>

\* The write returned, failed, or died with the process.
EndSet ==
  /\ write # None
  /\ write' = None
  /\ UNCHANGED <<selected, fallback, damages>>

Publish ==
  /\ write # None
  /\ selected # write.to
  /\ selected' = write.to
  /\ fallback' = selected
  /\ UNCHANGED <<write, damages>>

\* A damaged file costs the selected set, the other one, or neither.  Once one
\* was damaged, an earlier set may be what is left to fall back to.
LoseFile ==
  /\ damages' = damages + 1
  /\ selected' \in {selected, fallback}
  /\ fallback' \in {fallback, None} \cup (IF damages = 0 THEN {} ELSE Sets)
  /\ UNCHANGED write

\* After a damage, the write that meets it may bring back what it found and
\* keeps whatever earlier set it can; what is selected is still one of its two.
\* A second damage may have hit what it found: then some set is, or none.
Repair ==
  /\ damages > 0 /\ write # None
  /\ {selected', fallback'} \subseteq Sets \cup {None}
  /\ damages = 1 => selected' \in {selected, write.from, write.to} \ {None}
  /\ UNCHANGED <<write, damages>>

PromiseNext == BeginSet \/ EndSet \/ Publish \/ LoseFile \/ Repair

PromiseSpec == PromiseInit /\ [][PromiseNext]_promiseVars
=============================================================================
