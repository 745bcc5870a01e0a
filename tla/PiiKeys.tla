------------------------------ MODULE PiiKeys ------------------------------
(***************************************************************************)
(* Personal data at rest and the rotation of its key while the application *)
(* runs: both keys are deployed, the migration that encrypts the columns   *)
(* is taken back and applied again, the old key is dropped.  A migration   *)
(* is one transaction, which reads all rows before it writes them.         *)
(***************************************************************************)
EXTENDS Naturals, Sequences

CONSTANTS
  Cell,   \* encrypted values of the database
  Text,   \* what they say
  Worker, \* processes of the API
  Later,  \* migrations that came after the encrypting one
  Down    \* how many migrations the operator takes back

ASSUME PiiAssumption == Later \in Nat /\ Down \in Nat

VARIABLES
  keyring,    \* PII_ENC_KEYS of the deployment, the key for writing first
  loaded, \* keys each worker was started with
  cells,  \* text and the keys it is sealed with, innermost first
  phase,  \* step of the rotation
  copy    \* rows as the running migration has read them

piiVars == <<keyring, loaded, cells, phase, copy>>

Sealed(text, keys) == [text |-> text, keys |-> keys]

\* A value is opened once if it looks sealed: by any key of the list.
Opens(keys, cell) ==
  cell.keys = <<>> \/ (Len(cell.keys) = 1 /\ \E i \in DOMAIN keys : keys[i] = cell.keys[1])

PiiInit ==
  /\ keyring = <<"old">>
  /\ loaded = [w \in Worker |-> keyring]
  /\ \E t \in Text, k \in {<<>>, keyring} : cells = [c \in Cell |-> Sealed(t, k)]
  /\ phase = "old"
  /\ copy = cells

\* Keys are read once in the life of a process.
Restart(w) ==
  /\ loaded[w] # keyring
  /\ loaded' = [loaded EXCEPT ![w] = keyring]
  /\ UNCHANGED <<keyring, cells, phase, copy>>

WriteCell(w, c, t) ==
  /\ cells' = [cells EXCEPT ![c] = Sealed(t, <<Head(loaded[w])>>)]
  /\ UNCHANGED <<keyring, loaded, phase, copy>>

AddKey ==
  /\ phase = "old"
  /\ keyring' = <<"new", "old">>
  /\ phase' = "both"
  /\ UNCHANGED <<loaded, cells, copy>>

\* The operator goes on when all containers were restarted.
MigrationReads ==
  /\ \/ phase = "both" /\ (\A w \in Worker : loaded[w] = keyring) /\ phase' = "downgrade"
     \/ phase = "down" /\ phase' = "upgrade"
  /\ copy' = cells
  /\ UNCHANGED <<keyring, loaded, cells>>

Decrypted(cell) == Sealed(cell.text, <<>>)

\* Mutant: what looks sealed is sealed again.
Encrypted_again(cell) == Sealed(cell.text, Append(cell.keys, keyring[1]))

\* What looks sealed is not touched.
Encrypted(cell) == IF cell.keys = <<>> THEN Sealed(cell.text, <<keyring[1]>>) ELSE cell

Target(cell) == IF phase = "downgrade" THEN Decrypted(cell) ELSE Encrypted(cell)

\* Rows that need no change are left as they are now, the others overwritten
\* with what was read.
Rewritten == [c \in Cell |-> IF Target(copy[c]) = copy[c] THEN cells[c] ELSE Target(copy[c])]

\* Only a downgrade past the later migrations reaches the encrypting one; it
\* fails as a whole on a row that no key opens.
MigrationWrites ==
  /\ phase \in {"downgrade", "upgrade"}
  /\ phase = "downgrade" => \A c \in Cell : Opens(keyring, copy[c])
  /\ phase' = IF phase = "downgrade" THEN "down" ELSE "up"
  /\ cells' = IF Down <= Later THEN cells ELSE Rewritten
  /\ UNCHANGED <<keyring, loaded, copy>>

DropOldKey ==
  /\ phase = "up"
  /\ keyring' = <<"new">>
  /\ phase' = "new"
  /\ UNCHANGED <<loaded, cells, copy>>

PiiNext ==
  \/ AddKey \/ MigrationReads \/ MigrationWrites \/ DropOldKey
  \/ \E w \in Worker : Restart(w) \/ \E c \in Cell, t \in Text : WriteCell(w, c, t)

PiiSpec == PiiInit /\ [][PiiNext]_piiVars
-----------------------------------------------------------------------------
\* A worker started with the keys of the deployment opens every row, through
\* the whole rotation and whatever other workers write meanwhile.
RowsStayReadable ==
  \A w \in Worker : phase # "old" /\ loaded[w] = keyring => \A c \in Cell : Opens(keyring, cells[c])
=============================================================================
