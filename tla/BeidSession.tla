----------------------------- MODULE BeidSession -----------------------------
(***************************************************************************)
(* open_beid_session of src/pdfstamp/beid.py (lines 12-36): find the       *)
(* Belgian eID token among the PKCS#11 slots and open a session on it.     *)
(* A slot is seen through what get_token() does on it: raise a             *)
(* PKCS11Error ("error": no token, token not recognised), or return a      *)
(* token labelled "BELPIC" or some other label ("other").                  *)
(*                                                                         *)
(* lib.get_slots() (line 15) fixes the list of slots once; each            *)
(* get_token() (line 20) asks the reader when the loop reaches that slot.  *)
(* The search is therefore one step per slot, and cards are inserted,      *)
(* removed or swapped (CardChange) between any two of them.                *)
(***************************************************************************)
EXTENDS Integers, Sequences

CONSTANTS
  NumSlots,  \* the number of slots lib.get_slots() reports
  None       \* slot_no=None, `token = None', and no search under way

SlotStates == {"error", "BELPIC", "other"}

VARIABLES
  slots,     \* slot index (0-based) -> what get_token() yields now
  session,   \* the outcome of the last call: the opened token or the error
  pc,        \* "idle", "search" inside the loop of lines 18-24, or "open"
             \* between the label check and token.open() (line 36)
  k,         \* the loop's position in the slot list
  token,     \* the local `token' of open_beid_session
  steady     \* history: slots holding BELPIC since the search began and
             \* never changed since (None for a call with a slot number)

vars == <<slots, session, pc, k, token, steady>>

Token(i) == [slot |-> i, label |-> slots[i]]
Raised(msg) == [error |-> msg]

(***************************************************************************)
(* open_beid_session(lib_location, slot_no).  With slot_no None the call   *)
(* sets token = None and enters the loop (lines 16-18).  With a number,    *)
(* slots[slot_no] is Python indexing: a negative number counts from the    *)
(* end and one outside -n .. n-1 raises IndexError; get_token()'s error    *)
(* propagates and a label other than BELPIC raises (lines 28-32); a BELPIC *)
(* token goes on to token.open() (line 36).                                *)
(***************************************************************************)
OpenBeidSession(slotNo) ==
  /\ pc = "idle"
  /\ IF slotNo = None
     THEN /\ pc' = "search"
          /\ k' = 0
          /\ token' = None
          /\ steady' = {j \in 0 .. NumSlots - 1 : slots[j] = "BELPIC"}
          /\ UNCHANGED session
     ELSE LET i == IF slotNo < 0 THEN NumSlots + slotNo ELSE slotNo
          IN /\ IF i \in 0 .. NumSlots - 1 /\ slots[i] = "BELPIC"
                THEN /\ token' = Token(i)
                     /\ pc' = "open"
                     /\ UNCHANGED session
                ELSE /\ session' =
                          IF i < 0 \/ i >= NumSlots THEN Raised("IndexError")
                          ELSE IF slots[i] = "error" THEN Raised("PKCS11Error")
                          ELSE Raised("not BELPIC")
                     /\ UNCHANGED <<pc, token>>
             /\ steady' = None
             /\ UNCHANGED k
  /\ UNCHANGED slots

(***************************************************************************)
(* One iteration of the loop (lines 18-24): a slot whose get_token()       *)
(* raises is skipped and leaves `token' as it was; a token read is kept,   *)
(* and on BELPIC the loop breaks towards token.open().                     *)
(***************************************************************************)
\* Mutant: the loop does not break on BELPIC.
SearchStepNoBreak ==
  /\ pc = "search" /\ k < NumSlots
  /\ k' = k + 1
  /\ token' = IF slots[k] = "error" THEN token ELSE Token(k)
  /\ UNCHANGED <<slots, session, pc, steady>>

SearchStep ==
  /\ pc = "search" /\ k < NumSlots
  /\ IF slots[k] = "BELPIC"
     THEN /\ pc' = "open" /\ UNCHANGED k
     ELSE /\ k' = k + 1 /\ UNCHANGED pc
  /\ token' = IF slots[k] = "error" THEN token ELSE Token(k)
  /\ UNCHANGED <<slots, session, steady>>

\* The loop ran out of slots: raise if no token was read (lines 25-26),
\* else go on to open the last token read.
SearchEnd ==
  /\ pc = "search" /\ k = NumSlots
  /\ IF token = None
     THEN session' = Raised("No BELPIC token found") /\ pc' = "idle"
     ELSE pc' = "open" /\ UNCHANGED session
  /\ UNCHANGED <<slots, k, token, steady>>

(***************************************************************************)
(* token.open() (line 36) opens a session on the token's slot as it is     *)
(* now, some time after get_token() read it.  A card still in place gives  *)
(* the session; once the card was pulled or swapped, the middleware        *)
(* raises, or, with another card now in the reader, may open that card.    *)
(***************************************************************************)
Open ==
  /\ pc = "open"
  /\ LET now == slots[token.slot]
     IN session' \in
          IF now = token.label THEN {token}
          ELSE {Raised("PKCS11Error")}
                 \cup (IF now = "error" THEN {} ELSE {Token(token.slot)})
  /\ pc' = "idle"
  /\ UNCHANGED <<slots, k, token, steady>>

\* A card is inserted, removed or swapped in a slot, at any moment.
CardChange(j, s) ==
  /\ slots[j] # s
  /\ slots' = [slots EXCEPT ![j] = s]
  /\ steady' = IF steady = None THEN None ELSE steady \ {j}
  /\ UNCHANGED <<session, pc, k, token>>

Init ==
  /\ slots \in [0 .. NumSlots - 1 -> SlotStates]
  /\ session = None
  /\ pc = "idle"
  /\ k = 0
  /\ token = None
  /\ steady = None

Next ==
  \/ \E slotNo \in {None} \cup (-NumSlots - 1 .. NumSlots) :
       OpenBeidSession(slotNo)
  \/ SearchStep
  \/ SearchEnd
  \/ Open
  \/ \E j \in 0 .. NumSlots - 1, s \in SlotStates : CardChange(j, s)

Spec == Init /\ [][Next]_vars

-----------------------------------------------------------------------------
IsToken(x) == x # None /\ "slot" \in DOMAIN x

(***************************************************************************)
(* A card that sits in its reader throughout the search of                 *)
(* open_beid_session(slot_no=None) is found: if some slot held the eID     *)
(* from the call until the loop left it, the token the loop hands to       *)
(* token.open() is a BELPIC token, whatever cards were inserted into or    *)
(* pulled from the other readers while the loop (lines 18-24) went past   *)
(* them.  It rests on the break at line 22: the loop stops at a BELPIC     *)
(* token it reads, and cannot pass the steady slot without reading it.     *)
(* It says nothing of the open itself: a BELPIC card read in an earlier    *)
(* slot and pulled before line 36 still makes the open fail (Open).       *)
(***************************************************************************)
SteadyBelpicSelected ==
  pc \in {"open", "idle"} /\ steady \notin {None, {}}
    => token # None /\ token.label = "BELPIC"

=============================================================================
