---------------------------- MODULE CaseRegister ----------------------------
(***************************************************************************)
(* What the dossier registry promises, with no transaction, no lock and no *)
(* sequence in sight: dossiers are filed one at a time, each under a case  *)
(* identifier above every identifier filed before it (years first, numbers *)
(* within a year), and filing a dossier replaces the borrower's card.      *)
(* DossierRegistry is shown to implement this specification.               *)
(***************************************************************************)
EXTENDS Integers

CONSTANTS
  Filer,   \* who may file a dossier
  Inn,     \* borrowers, by taxpayer number
  Year     \* calendar years a case identifier may carry

VARIABLES
  register,  \* the dossiers filed: a set of [owner, inn, year, num]
  card       \* the author of each borrower's current card

regVars == <<register, card>>

\* <<year, num>> of d comes after <<year, num>> of e.
Above(d, e) == d.year > e.year \/ (d.year = e.year /\ d.num > e.num)

\* The registry as the migration leaves it: old dossiers, old cards.
RegisterInit == \A d, e \in register : d = e \/ Above(d, e) \/ Above(e, d)

\* Dossier d, the one thing this step adds, is above all the others; the first
\* of a year that others precede has the number one.
File(f, i) ==
  \E d \in register' \ register :
    /\ d.owner = f /\ d.inn = i /\ d.year \in Year /\ d.num \in Nat
    /\ \A e \in register : Above(d, e)
    /\ register # {} /\ (\A e \in register : e.year < d.year) => d.num = 1
    /\ register' = register \cup {d}
    /\ card' = [card EXCEPT ![i] = f]

RegisterNext == \E f \in Filer, i \in Inn : File(f, i)

RegisterSpec == RegisterInit /\ [][RegisterNext]_regVars
=============================================================================
