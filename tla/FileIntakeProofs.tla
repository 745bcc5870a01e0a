-------------------------- MODULE FileIntakeProofs --------------------------
(***************************************************************************)
(* Theorems about FileIntake, for any files, in any number and any order,  *)
(* and any bound on the list.                                              *)
(***************************************************************************)
EXTENDS FileIntake, ListProofs

\* The batch is read file by file.
LEMMA ReadingsUnfold ==
  ASSUME NEW batch, Len(batch) \in Nat
  PROVE  Readings(batch) =
           [n \in 0 .. Len(batch) |->
              IF n = 0 THEN NothingRead ELSE ReadFile(Readings(batch)[n - 1], batch[n])]
<1> DEFINE L == Len(batch)
           Reads(g, k) ==
             g = [n \in 0 .. k |-> IF n = 0 THEN NothingRead ELSE ReadFile(g[n - 1], batch[n])]
           Read == {k \in 0 .. L : \E g : Reads(g, k)}
<1>1. 0 \in Read
  <2>1. Reads([n \in 0 .. 0 |-> NothingRead], 0)
    OBVIOUS
  <2>2. 0 \in 0 .. L
    OBVIOUS
  <2> HIDE DEF Reads
  <2>3. QED
    BY <2>1, <2>2
<1>2. ASSUME NEW k \in 0 .. L - 1, k \in Read PROVE k + 1 \in Read
  <2>1. PICK g : Reads(g, k)
    BY <1>2
  <2> DEFINE h == [n \in 0 .. k + 1 |-> IF n = k + 1 THEN ReadFile(g[k], batch[k + 1]) ELSE g[n]]
  <2>2. ASSUME NEW n \in 0 .. k + 1
        PROVE  h[n] = IF n = 0 THEN NothingRead ELSE ReadFile(h[n - 1], batch[n])
    <3>1. CASE n = k + 1
      <4>1. h[n] = ReadFile(g[k], batch[k + 1]) /\ h[k] = g[k] /\ n - 1 = k /\ n # 0
        BY <3>1
      <4>2. QED
        BY <3>1, <4>1
    <3>2. CASE n \in 1 .. k
      <4>1. h[n] = g[n] /\ h[n - 1] = g[n - 1] /\ n # 0 /\ n \in 0 .. k
        BY <3>2
      <4>2. QED
        BY <2>1, <4>1
    <3>3. CASE n = 0
      BY <2>1, <3>3
    <3>4. QED
      BY <3>1, <3>2, <3>3
  <2>3. Reads(h, k + 1)
    BY <2>2
  <2>4. k + 1 \in 0 .. L
    OBVIOUS
  <2> HIDE DEF h, Reads
  <2>5. QED
    BY <2>3, <2>4
<1>3. L \in Read
  <2> HIDE DEF Read
  <2>1. 0 .. L \subseteq Read
    BY <1>1, <1>2, UpTo
  <2>2. QED
    BY <2>1
<1>4. PICK g : Reads(g, L)
  BY <1>3
<1>5. Readings(batch) = CHOOSE f : Reads(f, L)
  BY DEF Readings
<1>6. Reads(Readings(batch), L)
  <2> HIDE DEF Reads
  <2>1. QED
    BY <1>4, <1>5
<1>7. QED
  BY <1>6
-----------------------------------------------------------------------------
(* Offering numbers.                                                       *)

\* What has been read is a record of three functions with the same keys.
IsRead(read) ==
  /\ read = [value |-> read.value, tier |-> read.tier, from |-> read.from,
             told |-> read.told, balance |-> read.balance]
  /\ DOMAIN read.tier = DOMAIN read.value /\ DOMAIN read.from = DOMAIN read.value

\* An offer that changes something.
Wins(read, o) == o.value # Unknown /\ Taken(read, o)

LEMMA OverIs ==
  ASSUME NEW new, NEW old
  PROVE  /\ DOMAIN Over(new, old) = DOMAIN new \cup DOMAIN old
         /\ \A k \in DOMAIN new : Over(new, old)[k] = new[k]
         /\ \A k \in DOMAIN old \ DOMAIN new : Over(new, old)[k] = old[k]
  BY DEF Over

\* What becomes of what was read when a file offers numbers for different keys.
LEMMA OffersMerged ==
  ASSUME NEW read, IsRead(read), NEW f, NEW offers,
         \A o, p \in offers : o.key = p.key => o = p,
         NEW r, r = set_with_tier_priority(read, f, offers)
  PROVE  /\ IsRead(r) /\ r.balance = read.balance /\ read.told \subseteq r.told
         /\ DOMAIN r.value = DOMAIN read.value \cup {o.key : o \in {o \in offers : Wins(read, o)}}
         /\ \A o \in offers : Wins(read, o) =>
              r.value[o.key] = o.value /\ r.tier[o.key] = o.tier /\ r.from[o.key] = o.from
         /\ \A key \in DOMAIN read.value : (\A o \in offers : o.key = key => ~Wins(read, o)) =>
              /\ r.value[key] = read.value[key] /\ r.tier[key] = read.tier[key]
              /\ r.from[key] = read.from[key]
         /\ \A o \in offers : o.value # Unknown /\ ~Wins(read, o) /\ o.tier = read.tier[o.key]
              => f.name \in r.told
<1> DEFINE taken == {o \in offers : o.value # Unknown /\ Taken(read, o)}
           Of(key) == CHOOSE o \in taken : o.key = key
           keys == {o.key : o \in taken}
           told == \E o \in offers : /\ o.value # Unknown /\ o \notin taken
                                     /\ o.tier = read.tier[o.key]
           nv == [k \in keys |-> Of(k).value]
           nt == [k \in keys |-> Of(k).tier]
           nf == [k \in keys |-> Of(k).from]
           value == Over(nv, read.value)
           tier == Over(nt, read.tier)
           from == Over(nf, read.from)
<1>3. r = [value |-> value, tier |-> tier, from |-> from,
           told |-> read.told \cup (IF told THEN {f.name} ELSE {}),
           balance |-> read.balance]
  BY DEF set_with_tier_priority
<1>4. \A o \in taken : Of(o.key) = o /\ o.key \in keys
  OBVIOUS
<1>5. \A o \in offers : o \in taken <=> Wins(read, o)
  BY DEF Wins
<1> HIDE DEF Of, keys, taken
<1>6. /\ DOMAIN value = keys \cup DOMAIN read.value
      /\ DOMAIN tier = keys \cup DOMAIN read.value
      /\ DOMAIN from = keys \cup DOMAIN read.value
      /\ \A k \in keys : value[k] = Of(k).value /\ tier[k] = Of(k).tier /\ from[k] = Of(k).from
      /\ \A k \in DOMAIN read.value \ keys :
           value[k] = read.value[k] /\ tier[k] = read.tier[k] /\ from[k] = read.from[k]
  <2>1. DOMAIN read.tier = DOMAIN read.value /\ DOMAIN read.from = DOMAIN read.value
    BY DEF IsRead
  <2>2. DOMAIN nv = keys /\ DOMAIN nt = keys /\ DOMAIN nf = keys
    OBVIOUS
  <2>3. \A k \in keys : nv[k] = Of(k).value /\ nt[k] = Of(k).tier /\ nf[k] = Of(k).from
    OBVIOUS
  <2> HIDE DEF nv, nt, nf
  <2>4. /\ DOMAIN value = keys \cup DOMAIN read.value
        /\ \A k \in keys : value[k] = nv[k]
        /\ \A k \in DOMAIN read.value \ keys : value[k] = read.value[k]
    BY <2>2 DEF Over
  <2>5. /\ DOMAIN tier = keys \cup DOMAIN read.value
        /\ \A k \in keys : tier[k] = nt[k]
        /\ \A k \in DOMAIN read.value \ keys : tier[k] = read.tier[k]
    BY <2>1, <2>2 DEF Over
  <2>6. /\ DOMAIN from = keys \cup DOMAIN read.value
        /\ \A k \in keys : from[k] = nf[k]
        /\ \A k \in DOMAIN read.value \ keys : from[k] = read.from[k]
    BY <2>1, <2>2 DEF Over
  <2>7. QED
    BY <2>3, <2>4, <2>5, <2>6
<1> USE DEF keys, taken
<1> HIDE DEF value, tier, from, Of
<1>7. /\ IsRead(r) /\ r.balance = read.balance /\ read.told \subseteq r.told
  BY <1>3, <1>6 DEF IsRead
<1>8. DOMAIN r.value = DOMAIN read.value \cup {o.key : o \in {o \in offers : Wins(read, o)}}
  BY <1>3, <1>5, <1>6
<1>9. ASSUME NEW o \in offers, Wins(read, o)
      PROVE  r.value[o.key] = o.value /\ r.tier[o.key] = o.tier /\ r.from[o.key] = o.from
  <2>1. o \in taken
    BY <1>5, <1>9
  <2> HIDE DEF taken, keys
  <2>2. QED
    BY <2>1, <1>3, <1>4, <1>6
<1>10. ASSUME NEW key \in DOMAIN read.value, \A o \in offers : o.key = key => ~Wins(read, o)
       PROVE  /\ r.value[key] = read.value[key] /\ r.tier[key] = read.tier[key]
              /\ r.from[key] = read.from[key]
  <2>1. key \notin keys
    BY <1>5, <1>10
  <2> HIDE DEF taken, keys
  <2>2. QED
    BY <2>1, <1>3, <1>6
<1>11. ASSUME NEW o \in offers, o.value # Unknown, ~Wins(read, o), o.tier = read.tier[o.key]
       PROVE  f.name \in r.told
  <2>1. told
    BY <1>11, <1>5
  <2> HIDE DEF told
  <2>2. QED
    BY <2>1, <1>3
<1>12. QED
  BY <1>7, <1>8, <1>9, <1>10, <1>11
-----------------------------------------------------------------------------
(* What a file offers, whatever has been read before it.                   *)

Results == {"revenue", "interest_expense", "net_profit", "profit_before_tax"}

OffersOf(f) ==
  IF IsA(f, "form_2") /\ WholeYear(f)
    THEN {Offer(<<x, Year(f)>>, parse_form2(f, "current")[x], Current, f, "current") : x \in Results}
         \cup {Offer(<<x, Year(f) - 1>>, parse_form2(f, "prior")[x], Prior, f, "prior") : x \in Results}
  ELSE IF IsA(f, "vat") /\ Year(f) # Unknown /\ Number(f.cells.charged) # Unknown
    THEN {Offer(<<"vat_declared", Year(f)>>, f.cells.charged, Current, f, "current")}
  ELSE IF IsA(f, "profit_tax") /\ WholeYear(f) /\ Number(f.cells.total) # Unknown
    THEN {Offer(<<"taxes_paid", Year(f)>>, f.cells.total, Current, f, "current")}
  ELSE {}

\* The sheet that is ahead after a file.
SheetAhead(read, f) ==
  IF IsA(f, "form_1")
     /\ (read.balance # Unknown => form1_period_key(f) > form1_period_key(read.balance))
    THEN f ELSE read.balance

\* What is known of a reading after offers were made to it: the step of the
\* induction over a batch.
Grown(read, f, offers, r) ==
  /\ IsRead(r) /\ read.told \subseteq r.told
  /\ DOMAIN r.value = DOMAIN read.value \cup {o.key : o \in {o \in offers : Wins(read, o)}}
  /\ \A o \in offers : Wins(read, o) =>
       r.value[o.key] = o.value /\ r.tier[o.key] = o.tier /\ r.from[o.key] = o.from
  /\ \A key \in DOMAIN read.value : (\A o \in offers : o.key = key => ~Wins(read, o)) =>
       /\ r.value[key] = read.value[key] /\ r.tier[key] = read.tier[key]
       /\ r.from[key] = read.from[key]
  /\ \A o \in offers : o.value # Unknown /\ ~Wins(read, o) /\ o.tier = read.tier[o.key]
       => f.name \in r.told

\* A file whose year and quarter are cells.
IsFile(f) == f # Unknown /\ f.year \in Cell /\ f.quarter \in Cell

LEMMA YearIsNumber ==
  ASSUME NEW f, IsFile(f), Year(f) # Unknown
  PROVE  Year(f) \in Int
  BY IntakeAssumption DEF IsFile, Year, Number, Cell

\* A file offers one number for a key, and none for the balance.
LEMMA OffersAreOfKeys ==
  ASSUME NEW f, IsFile(f)
  PROVE  /\ \A o, p \in OffersOf(f) : o.key = p.key => o = p
         /\ \A o \in OffersOf(f) :
              /\ o.tier \in {Prior, Current} /\ o.from.file = f.name
              /\ o.key[1] \notin BalanceField /\ f.opens
              /\ o.value = Says(f, o.key, o.from.column)
<1>1. CASE IsA(f, "form_2") /\ WholeYear(f)
  <2> DEFINE now == {Offer(<<x, Year(f)>>, parse_form2(f, "current")[x], Current, f, "current") : x \in Results}
             before == {Offer(<<x, Year(f) - 1>>, parse_form2(f, "prior")[x], Prior, f, "prior") : x \in Results}
  <2>1. OffersOf(f) = now \cup before
    BY <1>1 DEF OffersOf
  <2>2. Year(f) \in Int
    BY <1>1, YearIsNumber DEF WholeYear
  <2>3. detect_format(f) = "form_2" /\ f.opens
    BY <1>1 DEF IsA
  <2>4. ASSUME NEW o \in now
        PROVE  /\ o.tier = Current /\ o.key[1] \in Results /\ o.key[2] = Year(f)
               /\ o.from.file = f.name /\ o.from.column = "current"
               /\ o.value = parse_form2(f, "current")[o.key[1]]
               /\ o = Offer(<<o.key[1], Year(f)>>, parse_form2(f, "current")[o.key[1]],
                            Current, f, "current")
    BY DEF Offer
  <2>5. ASSUME NEW o \in before
        PROVE  /\ o.tier = Prior /\ o.key[1] \in Results /\ o.key[2] = Year(f) - 1
               /\ o.from.file = f.name /\ o.from.column = "prior"
               /\ o.value = parse_form2(f, "prior")[o.key[1]]
               /\ o = Offer(<<o.key[1], Year(f) - 1>>, parse_form2(f, "prior")[o.key[1]],
                            Prior, f, "prior")
    BY DEF Offer
  <2> HIDE DEF now, before
  <2>6. \A o, p \in OffersOf(f) : o.key = p.key => o = p
    <3> SUFFICES ASSUME NEW o \in OffersOf(f), NEW p \in OffersOf(f), o.key = p.key
                 PROVE  o = p
      OBVIOUS
    <3>1. Year(f) # Year(f) - 1
      BY <2>2
    <3>2. CASE o \in now /\ p \in now
      <4>1. o.key[1] = p.key[1]
        OBVIOUS
      <4>2. QED
        BY <2>4, <3>2, <4>1
    <3>3. CASE o \in before /\ p \in before
      <4>1. o.key[1] = p.key[1]
        OBVIOUS
      <4>2. QED
        BY <2>5, <3>3, <4>1
    <3>4. CASE o \in now /\ p \in before
      <4>1. o.key[2] # p.key[2]
        <5>1. o.key[2] = Year(f)
          BY <2>4, <3>4
        <5>2. p.key[2] = Year(f) - 1
          BY <2>5, <3>4
        <5>3. QED
          BY <3>1, <5>1, <5>2
      <4>2. QED
        BY <4>1
    <3>5. CASE o \in before /\ p \in now
      <4>1. o.key[2] # p.key[2]
        <5>1. o.key[2] = Year(f) - 1
          BY <2>5, <3>5
        <5>2. p.key[2] = Year(f)
          BY <2>4, <3>5
        <5>3. QED
          BY <3>1, <5>1, <5>2
      <4>2. QED
        BY <4>1
    <3>6. QED
      BY <2>1, <3>2, <3>3, <3>4, <3>5
  <2>7. ASSUME NEW o \in OffersOf(f)
        PROVE  /\ o.tier \in {Prior, Current} /\ o.from.file = f.name
               /\ o.key[1] \in Results
               /\ o.value = parse_form2(f, o.from.column)[o.key[1]]
    <3>1. CASE o \in now
      BY <2>4, <3>1
    <3>2. CASE o \in before
      BY <2>5, <3>2
    <3>3. QED
      BY <2>1, <3>1, <3>2
  <2>8. \A x \in Results : x \notin BalanceField
    BY DEF Results, BalanceField
  <2>9. \A key, column : Says(f, key, column) = parse_form2(f, column)[key[1]]
    BY <2>3 DEF Says
  <2>10. QED
    BY <2>3, <2>6, <2>7, <2>8, <2>9
<1>2. CASE ~(IsA(f, "form_2") /\ WholeYear(f))
  <2>1. CASE IsA(f, "vat") /\ Year(f) # Unknown /\ Number(f.cells.charged) # Unknown
    <3>1. OffersOf(f) = {Offer(<<"vat_declared", Year(f)>>, f.cells.charged, Current, f, "current")}
      BY <1>2, <2>1 DEF OffersOf
    <3>2. detect_format(f) = "vat" /\ f.opens
      BY <2>1 DEF IsA
    <3>3. QED
      BY <3>1, <3>2 DEF Offer, Says, BalanceField
  <2>2. CASE ~(IsA(f, "vat") /\ Year(f) # Unknown /\ Number(f.cells.charged) # Unknown)
    <3>1. CASE IsA(f, "profit_tax") /\ WholeYear(f) /\ Number(f.cells.total) # Unknown
      <4>1. OffersOf(f) = {Offer(<<"taxes_paid", Year(f)>>, f.cells.total, Current, f, "current")}
        BY <1>2, <2>2, <3>1 DEF OffersOf
      <4>2. detect_format(f) = "profit_tax" /\ f.opens
        BY <3>1 DEF IsA
      <4>3. QED
        BY <4>1, <4>2 DEF Offer, Says, BalanceField
    <3>2. CASE ~(IsA(f, "profit_tax") /\ WholeYear(f) /\ Number(f.cells.total) # Unknown)
      BY <1>2, <2>2, <3>2 DEF OffersOf
    <3>3. QED
      BY <3>1, <3>2
  <2>3. QED
    BY <2>1, <2>2
<1>3. QED
  BY <1>1, <1>2

\* Nothing is offered: the reading keeps its values.
LEMMA NothingOffered ==
  ASSUME NEW read, IsRead(read), NEW f, NEW r, IsRead(r), read.told \subseteq r.told,
         r.value = read.value, r.tier = read.tier, r.from = read.from
  PROVE  Grown(read, f, {}, r)
  BY DEF Grown

\* Reading a file is making its offers and looking at its sheet.
LEMMA ReadFileGrows ==
  ASSUME NEW read, IsRead(read), NEW f, IsFile(f), NEW r, r = ReadFile(read, f)
  PROVE  Grown(read, f, OffersOf(f), r) /\ r.balance = SheetAhead(read, f)
<1>1. ASSUME NEW offers, r = set_with_tier_priority(read, f, offers), offers = OffersOf(f)
      PROVE  Grown(read, f, OffersOf(f), r) /\ r.balance = read.balance
  BY <1>1, OffersAreOfKeys, OffersMerged DEF Grown
<1>2. ASSUME r = Tell(read, f), OffersOf(f) = {}
      PROVE  Grown(read, f, OffersOf(f), r) /\ r.balance = read.balance
  <2>1. /\ r.value = read.value /\ r.tier = read.tier /\ r.from = read.from
        /\ r.balance = read.balance /\ IsRead(r) /\ read.told \subseteq r.told
    BY <1>2 DEF Tell, IsRead
  <2>2. QED
    BY <1>2, <2>1, NothingOffered
<1> DEFINE format == IF f.opens THEN detect_format(f) ELSE "unknown"
<1>3. CASE format = "form_2"
  <2>1. IsA(f, "form_2") /\ ~IsA(f, "form_1") /\ ~IsA(f, "vat") /\ ~IsA(f, "profit_tax")
    BY <1>3 DEF IsA
  <2>2. r = merge_form2(read, f)
    BY <1>3 DEF ReadFile
  <2>3. SheetAhead(read, f) = read.balance
    BY <2>1 DEF SheetAhead
  <2>4. CASE WholeYear(f)
    <3> DEFINE now == parse_form2(f, "current")
               before == parse_form2(f, "prior")
    <3>1. DOMAIN now = Results /\ DOMAIN before = Results
      BY DEF parse_form2, Results
    <3>2. r = set_with_tier_priority(read, f,
             {Offer(<<x, Year(f)>>, now[x], Current, f, "current") : x \in DOMAIN now}
             \cup {Offer(<<x, Year(f) - 1>>, before[x], Prior, f, "prior") : x \in DOMAIN before})
      BY <2>2, <2>4 DEF merge_form2
    <3>3. {Offer(<<x, Year(f)>>, now[x], Current, f, "current") : x \in DOMAIN now}
             \cup {Offer(<<x, Year(f) - 1>>, before[x], Prior, f, "prior") : x \in DOMAIN before}
            = OffersOf(f)
      BY <2>1, <2>4, <3>1 DEF OffersOf
    <3>4. QED
      BY <1>1, <2>3, <3>2, <3>3
  <2>5. CASE ~WholeYear(f)
    BY <1>2, <2>1, <2>2, <2>3, <2>5 DEF merge_form2, OffersOf
  <2>6. QED
    BY <2>4, <2>5
<1>4. CASE format = "vat"
  <2>1. IsA(f, "vat") /\ ~IsA(f, "form_1") /\ ~IsA(f, "form_2") /\ ~IsA(f, "profit_tax")
    BY <1>4 DEF IsA
  <2>2. r = merge_vat_declaration(read, f)
    BY <1>4 DEF ReadFile
  <2>3. SheetAhead(read, f) = read.balance
    BY <2>1 DEF SheetAhead
  <2>4. CASE Year(f) = Unknown \/ Number(f.cells.charged) = Unknown
    BY <1>2, <2>1, <2>2, <2>3, <2>4 DEF merge_vat_declaration, OffersOf
  <2>5. CASE ~(Year(f) = Unknown \/ Number(f.cells.charged) = Unknown)
    BY <1>1, <2>1, <2>2, <2>3, <2>5 DEF merge_vat_declaration, OffersOf
  <2>6. QED
    BY <2>4, <2>5
<1>5. CASE format = "profit_tax"
  <2>1. IsA(f, "profit_tax") /\ ~IsA(f, "form_1") /\ ~IsA(f, "form_2") /\ ~IsA(f, "vat")
    BY <1>5 DEF IsA
  <2>2. r = merge_profit_tax(read, f)
    BY <1>5 DEF ReadFile
  <2>3. SheetAhead(read, f) = read.balance
    BY <2>1 DEF SheetAhead
  <2>4. CASE ~WholeYear(f) \/ Number(f.cells.total) = Unknown
    BY <1>2, <2>1, <2>2, <2>3, <2>4 DEF merge_profit_tax, OffersOf
  <2>5. CASE ~(~WholeYear(f) \/ Number(f.cells.total) = Unknown)
    BY <1>1, <2>1, <2>2, <2>3, <2>5 DEF merge_profit_tax, OffersOf
  <2>6. QED
    BY <2>4, <2>5
<1>6. CASE format = "form_1"
  <2>1. IsA(f, "form_1") /\ OffersOf(f) = {}
    BY <1>6 DEF IsA, OffersOf
  <2>2. r = consider_form1(read, f)
    BY <1>6 DEF ReadFile
  <2>3. CASE SheetAhead(read, f) = f /\ r = [read EXCEPT !.balance = f]
    <3>1. /\ r.value = read.value /\ r.tier = read.tier /\ r.from = read.from
          /\ r.balance = f /\ IsRead(r) /\ read.told \subseteq r.told
      BY <2>3 DEF IsRead
    <3>2. Grown(read, f, {}, r)
      BY <3>1, NothingOffered
    <3>3. QED
      BY <2>1, <2>3, <3>1, <3>2
  <2>4. CASE SheetAhead(read, f) = read.balance /\ r = Tell(read, f)
    BY <1>2, <2>1, <2>4
  <2>5. QED
    BY <2>1, <2>2, <2>3, <2>4 DEF consider_form1, SheetAhead
<1>7. CASE format \notin {"form_2", "vat", "profit_tax", "form_1"}
  <2>1. OffersOf(f) = {} /\ SheetAhead(read, f) = read.balance
    BY <1>7 DEF IsA, OffersOf, SheetAhead
  <2>2. CASE format = "ilova"
    <3>1. r = read
      BY <2>2 DEF ReadFile
    <3>2. r.balance = SheetAhead(read, f)
      BY <2>1, <3>1
    <3>3. Grown(read, f, {}, r)
      <4>1. IsRead(r) /\ read.told \subseteq r.told
        BY <3>1
      <4>2. QED
        BY <3>1, <4>1, NothingOffered
    <3>4. QED
      BY <2>1, <3>2, <3>3
  <2>3. CASE format # "ilova"
    <3>1. r = Tell(read, f)
      BY <1>7, <2>3 DEF ReadFile
    <3>2. QED
      BY <1>2, <2>1, <3>1
  <2>4. QED
    BY <2>2, <2>3
<1>8. QED
  BY <1>3, <1>4, <1>5, <1>6, <1>7
-----------------------------------------------------------------------------
(* After n files of a batch.                                               *)

\* Offer o of the i-th file is the one that is shown: none of the others for its
\* key has a higher rank, those of the same rank come later and are told of.
First(batch, n, told, i, o) ==
  \A j \in 1 .. n : \A p \in OffersOf(batch[j]) : p.key = o.key /\ p.value # Unknown =>
    /\ p.tier <= o.tier
    /\ p.tier = o.tier => (p = o /\ j = i) \/ (i < j /\ batch[j].name \in told)

Shown(batch, n, read) ==
  /\ \A key \in DOMAIN read.value : \E i \in 1 .. n : \E o \in OffersOf(batch[i]) :
       /\ o.key = key /\ o.value # Unknown /\ o.value = read.value[key]
       /\ o.tier = read.tier[key] /\ o.from = read.from[key]
       /\ First(batch, n, read.told, i, o)
  /\ \A j \in 1 .. n : \A p \in OffersOf(batch[j]) :
       p.value # Unknown => p.key \in DOMAIN read.value

Ahead(batch, n, balance) ==
  IF balance = Unknown THEN \A i \in 1 .. n : ~IsA(batch[i], "form_1")
  ELSE \E i \in 1 .. n :
         /\ balance = batch[i] /\ IsA(batch[i], "form_1")
         /\ \A j \in 1 .. n : IsA(batch[j], "form_1") =>
              form1_period_key(batch[j]) <= form1_period_key(batch[i])

LEMMA PeriodIsNumber ==
  ASSUME NEW f, IsFile(f)
  PROVE  form1_period_key(f) \in Int
<1>1. Year(f) = Unknown \/ Year(f) \in Int
  BY IntakeAssumption DEF IsFile, Year, Number, Cell
<1>2. Quarter(f) = Unknown \/ Quarter(f) \in Int
  BY IntakeAssumption DEF IsFile, Quarter, Number, Cell
<1>3. QED
  BY <1>1, <1>2 DEF form1_period_key

LEMMA AheadStep ==
  ASSUME NEW n \in Nat, NEW batch, \A i \in 1 .. n + 1 : IsFile(batch[i]),
         NEW read, Ahead(batch, n, read.balance)
  PROVE  Ahead(batch, n + 1, SheetAhead(read, batch[n + 1]))
<1> DEFINE f == batch[n + 1]
           key(i) == form1_period_key(batch[i])
<1>1. IsFile(f) /\ f # Unknown
  BY DEF IsFile
<1>2. \A i \in 1 .. n + 1 : key(i) \in Int
  BY PeriodIsNumber
<1>3. CASE SheetAhead(read, f) = f /\ IsA(f, "form_1")
           /\ (read.balance # Unknown => form1_period_key(f) > form1_period_key(read.balance))
  <2> HIDE DEF f
  <2>1. ASSUME NEW j \in 1 .. n + 1, IsA(batch[j], "form_1")
        PROVE  key(j) <= key(n + 1)
    <3>1. CASE j = n + 1
      BY <1>2, <3>1
    <3>2. CASE j \in 1 .. n
      <4>1. read.balance # Unknown
        BY <2>1, <3>2 DEF Ahead
      <4>2. PICK i \in 1 .. n : /\ read.balance = batch[i]
                                /\ key(j) <= key(i)
        BY <2>1, <3>2, <4>1 DEF Ahead
      <4>3. key(n + 1) > key(i)
        BY <1>3, <4>1, <4>2 DEF f
      <4>4. key(i) \in Int /\ key(j) \in Int /\ key(n + 1) \in Int
        BY <1>2
      <4> HIDE DEF key
      <4>5. QED
        BY <4>2, <4>3, <4>4
    <3>3. QED
      BY <3>1, <3>2
  <2>2. n + 1 \in 1 .. n + 1 /\ IsA(batch[n + 1], "form_1") /\ SheetAhead(read, f) = batch[n + 1]
    BY <1>3 DEF f
  <2>3. QED
    BY <1>1, <1>3, <2>1, <2>2 DEF Ahead, f
<1>4. CASE SheetAhead(read, f) = read.balance
           /\ ~(IsA(f, "form_1")
                /\ (read.balance # Unknown => form1_period_key(f) > form1_period_key(read.balance)))
  <2> HIDE DEF f
  <2>1. CASE read.balance = Unknown
    <3>1. \A i \in 1 .. n + 1 : i \in 1 .. n \/ i = n + 1
      OBVIOUS
    <3>2. QED
      BY <1>4, <2>1, <3>1 DEF Ahead, f
  <2>2. CASE read.balance # Unknown
    <3>1. PICK i \in 1 .. n : /\ read.balance = batch[i] /\ IsA(batch[i], "form_1")
                              /\ \A j \in 1 .. n : IsA(batch[j], "form_1") => key(j) <= key(i)
      BY <2>2 DEF Ahead
    <3>2. ASSUME NEW j \in 1 .. n + 1, IsA(batch[j], "form_1")
          PROVE  key(j) <= key(i)
      <4>1. CASE j \in 1 .. n
        BY <3>1, <3>2, <4>1
      <4>2. CASE j = n + 1
        <5>1. ~(key(n + 1) > key(i))
          BY <1>4, <2>2, <3>1, <3>2, <4>2 DEF f
        <5>2. key(i) \in Int /\ key(n + 1) \in Int
          BY <1>2
        <5> HIDE DEF key
        <5>3. QED
          BY <4>2, <5>1, <5>2
      <4>3. QED
        BY <4>1, <4>2
    <3>3. i \in 1 .. n + 1
      OBVIOUS
    <3>4. QED
      BY <1>4, <2>2, <3>1, <3>2, <3>3 DEF Ahead, f
  <2>3. QED
    BY <2>1, <2>2
<1>5. QED
  BY <1>3, <1>4 DEF SheetAhead

LEMMA ShownStep ==
  ASSUME NEW n \in Nat, NEW batch, \A i \in 1 .. n + 1 : IsFile(batch[i]),
         NEW read, IsRead(read), Shown(batch, n, read),
         NEW r, Grown(read, batch[n + 1], OffersOf(batch[n + 1]), r)
  PROVE  Shown(batch, n + 1, r)
<1> DEFINE f == batch[n + 1]
           offers == OffersOf(f)
<1>1. Grown(read, f, offers, r)
  OBVIOUS
<1>2. \A i \in 1 .. n + 1 : i \in 1 .. n \/ i = n + 1
  OBVIOUS
<1>3. \A i \in 1 .. n + 1 : \A o \in OffersOf(batch[i]) : o.tier \in Int
  <2>1. \A i \in 1 .. n + 1 : \A o \in OffersOf(batch[i]) : o.tier \in {Prior, Current}
    BY OffersAreOfKeys
  <2>2. QED
    BY <2>1 DEF Prior, Current
<1>4. \A o, p \in offers : o.key = p.key => o = p
  <2>1. IsFile(f)
    OBVIOUS
  <2>2. QED
    BY <2>1, OffersAreOfKeys
<1>5. \A p \in offers : p.value # Unknown /\ ~Wins(read, p) =>
        p.key \in DOMAIN read.value /\ ~(p.tier > read.tier[p.key])
  BY DEF Wins, Taken
<1>6. DOMAIN read.value \subseteq DOMAIN r.value /\ read.told \subseteq r.told
  BY <1>1 DEF Grown
<1>7. n + 1 \in 1 .. n + 1 /\ 1 .. n \subseteq 1 .. n + 1
  OBVIOUS
<1> HIDE DEF f, offers
<1>8. ASSUME NEW j \in 1 .. n + 1, NEW p \in OffersOf(batch[j]), p.value # Unknown
      PROVE  p.key \in DOMAIN r.value
  <2>1. CASE j \in 1 .. n
    BY <1>6, <1>8, <2>1 DEF Shown
  <2>2. CASE j = n + 1
    <3>1. p \in offers
      BY <2>2 DEF offers, f
    <3>2. CASE Wins(read, p)
      BY <1>1, <3>1, <3>2 DEF Grown
    <3>3. CASE ~Wins(read, p)
      BY <1>5, <1>6, <1>8, <3>1, <3>3
    <3>4. QED
      BY <3>2, <3>3
  <2>3. QED
    BY <1>2, <2>1, <2>2
<1>9. ASSUME NEW key \in DOMAIN r.value
      PROVE  \E i \in 1 .. n + 1 : \E o \in OffersOf(batch[i]) :
               /\ o.key = key /\ o.value # Unknown /\ o.value = r.value[key]
               /\ o.tier = r.tier[key] /\ o.from = r.from[key]
               /\ First(batch, n + 1, r.told, i, o)
  <2>1. CASE \E o \in offers : o.key = key /\ Wins(read, o)
    <3>1. PICK o \in offers : o.key = key /\ Wins(read, o)
      BY <2>1
    <3>2. o.value = r.value[key] /\ o.tier = r.tier[key] /\ o.from = r.from[key] /\ o.value # Unknown
      BY <1>1, <3>1 DEF Grown, Wins
    <3>3. o \in OffersOf(batch[n + 1])
      BY DEF offers, f
    <3>4. ASSUME NEW j \in 1 .. n + 1, NEW p \in OffersOf(batch[j]), p.key = o.key, p.value # Unknown
          PROVE  /\ p.tier <= o.tier
                 /\ p.tier = o.tier => p = o /\ j = n + 1
      <4>1. CASE j = n + 1
        <5>1. p = o
          BY <1>4, <3>4, <4>1 DEF offers, f
        <5>2. QED
          BY <1>3, <1>7, <3>3, <4>1, <5>1
      <4>2. CASE j \in 1 .. n
        <5>1. key \in DOMAIN read.value
          BY <3>1, <3>4, <4>2 DEF Shown
        <5>2. PICK i \in 1 .. n : \E q \in OffersOf(batch[i]) :
                 q.key = key /\ q.tier = read.tier[key] /\ First(batch, n, read.told, i, q)
          BY <5>1 DEF Shown
        <5>3. PICK q \in OffersOf(batch[i]) :
                 q.key = key /\ q.tier = read.tier[key] /\ First(batch, n, read.told, i, q)
          BY <5>2
        <5>4. p.tier <= q.tier
          BY <3>1, <3>4, <4>2, <5>3 DEF First
        <5>5. o.tier > q.tier
          BY <3>1, <5>1, <5>3 DEF Wins, Taken
        <5>6. p.tier \in Int /\ q.tier \in Int /\ o.tier \in Int
          BY <1>3, <1>7, <3>3
        <5>7. QED
          BY <5>4, <5>5, <5>6
      <4>3. QED
        BY <1>2, <4>1, <4>2
    <3>5. First(batch, n + 1, r.told, n + 1, o)
      BY <3>4 DEF First
    <3>6. QED
      BY <1>7, <3>1, <3>2, <3>3, <3>5
  <2>2. CASE \A o \in offers : o.key = key => ~Wins(read, o)
    <3>1. key \in DOMAIN read.value
      BY <1>1, <2>2 DEF Grown
    <3>2. r.value[key] = read.value[key] /\ r.tier[key] = read.tier[key] /\ r.from[key] = read.from[key]
      BY <1>1, <2>2, <3>1 DEF Grown
    <3>3. PICK i \in 1 .. n : \E o \in OffersOf(batch[i]) :
             /\ o.key = key /\ o.value # Unknown /\ o.value = read.value[key]
             /\ o.tier = read.tier[key] /\ o.from = read.from[key]
             /\ First(batch, n, read.told, i, o)
      BY <3>1 DEF Shown
    <3>4. PICK o \in OffersOf(batch[i]) :
             /\ o.key = key /\ o.value # Unknown /\ o.value = read.value[key]
             /\ o.tier = read.tier[key] /\ o.from = read.from[key]
             /\ First(batch, n, read.told, i, o)
      BY <3>3
    <3>5. ASSUME NEW j \in 1 .. n + 1, NEW p \in OffersOf(batch[j]), p.key = o.key, p.value # Unknown
          PROVE  /\ p.tier <= o.tier
                 /\ p.tier = o.tier => (p = o /\ j = i) \/ (i < j /\ batch[j].name \in r.told)
      <4>1. CASE j \in 1 .. n
        BY <1>6, <3>4, <3>5, <4>1 DEF First
      <4>2. CASE j = n + 1
        <5>1. p \in offers /\ ~Wins(read, p)
          BY <2>2, <3>4, <3>5, <4>2 DEF offers, f
        <5>2. ~(p.tier > o.tier)
          BY <1>5, <3>4, <3>5, <5>1
        <5>3. p.tier \in Int /\ o.tier \in Int
          BY <1>3, <1>7
        <5>4. p.tier = o.tier => batch[j].name \in r.told
          BY <1>1, <3>4, <3>5, <4>2, <5>1 DEF Grown, f
        <5>5. i < j
          BY <4>2
        <5>6. QED
          BY <5>2, <5>3, <5>4, <5>5
      <4>3. QED
        BY <1>2, <4>1, <4>2
    <3>6. First(batch, n + 1, r.told, i, o)
      BY <3>5 DEF First
    <3>7. QED
      BY <1>7, <3>2, <3>4, <3>6
  <2>3. QED
    BY <2>1, <2>2
<1>10. QED
  BY <1>8, <1>9 DEF Shown

LEMMA AllShown ==
  ASSUME NEW batch, Len(batch) \in Nat, \A i \in 1 .. Len(batch) : IsFile(batch[i]),
         NEW read, read = Readings(batch)[Len(batch)]
  PROVE  /\ IsRead(read) /\ Shown(batch, Len(batch), read)
         /\ Ahead(batch, Len(batch), read.balance)
<1> DEFINE L == Len(batch)
           R(n) == Readings(batch)[n]
           Fine == {n \in 0 .. L : /\ IsRead(R(n)) /\ Shown(batch, n, R(n))
                                   /\ Ahead(batch, n, R(n).balance)}
<1>1. R(0) = NothingRead /\ \A n \in 0 .. L - 1 : R(n + 1) = ReadFile(R(n), batch[n + 1])
  <2>1. \A n \in 0 .. L : R(n) = IF n = 0 THEN NothingRead ELSE ReadFile(R(n - 1), batch[n])
    BY ReadingsUnfold
  <2>2. 0 \in 0 .. L /\ \A n \in 0 .. L - 1 : n + 1 \in 0 .. L /\ n + 1 # 0 /\ n + 1 - 1 = n
    OBVIOUS
  <2> HIDE DEF R
  <2>3. QED
    BY <2>1, <2>2
<1> HIDE DEF R
<1>2. 0 \in Fine
  <2>1. IsRead(NothingRead) /\ NothingRead.balance = Unknown /\ DOMAIN NothingRead.value = {}
    BY DEF IsRead, NothingRead, Empty
  <2>2. 1 .. 0 = {} /\ 0 \in 0 .. L
    OBVIOUS
  <2>3. Shown(batch, 0, NothingRead)
    BY <2>1, <2>2 DEF Shown
  <2>4. Ahead(batch, 0, NothingRead.balance)
    BY <2>1, <2>2 DEF Ahead
  <2>5. QED
    BY <1>1, <2>1, <2>2, <2>3, <2>4
<1>3. ASSUME NEW n \in 0 .. L - 1, n \in Fine PROVE n + 1 \in Fine
  <2>1. n \in Nat /\ n + 1 \in 0 .. L /\ n + 1 \in 1 .. L /\ 1 .. n + 1 \subseteq 1 .. L
    OBVIOUS
  <2>2. /\ R(n + 1) = ReadFile(R(n), batch[n + 1])
        /\ IsRead(R(n)) /\ Shown(batch, n, R(n)) /\ Ahead(batch, n, R(n).balance)
    BY <1>1, <1>3
  <2>3. IsFile(batch[n + 1]) /\ \A i \in 1 .. n + 1 : IsFile(batch[i])
    BY <2>1
  <2>4. /\ Grown(R(n), batch[n + 1], OffersOf(batch[n + 1]), R(n + 1))
        /\ R(n + 1).balance = SheetAhead(R(n), batch[n + 1])
    BY <2>2, <2>3, ReadFileGrows
  <2>5. Shown(batch, n + 1, R(n + 1))
    BY <2>1, <2>2, <2>3, <2>4, ShownStep
  <2>6. Ahead(batch, n + 1, SheetAhead(R(n), batch[n + 1]))
    BY <2>1, <2>2, <2>3, AheadStep
  <2>7. IsRead(R(n + 1))
    BY <2>4 DEF Grown
  <2>8. QED
    BY <2>1, <2>4, <2>5, <2>6, <2>7
<1>4. L \in Fine
  <2> HIDE DEF Fine
  <2>1. 0 .. L \subseteq Fine
    BY <1>2, <1>3, UpTo
  <2>2. QED
    BY <2>1
<1>5. QED
  BY <1>4 DEF R

\* What the whole batch comes to.
Answer(batch, r) ==
  LET balance == {key \in DOMAIN r.value : key[1] \in BalanceField}
  IN  /\ IsRead(r)
      /\ \A key \in DOMAIN r.value \ balance :
           \E i \in 1 .. Len(batch) : \E o \in OffersOf(batch[i]) :
             /\ o.key = key /\ o.value # Unknown /\ o.value = r.value[key]
             /\ o.from = r.from[key] /\ First(batch, Len(batch), r.told, i, o)
      /\ \A j \in 1 .. Len(batch) : \A p \in OffersOf(batch[j]) :
           p.value # Unknown => p.key \in DOMAIN r.value
      /\ balance # {} =>
           \E i \in 1 .. Len(batch) :
             /\ IsA(batch[i], "form_1")
             /\ \A j \in 1 .. Len(batch) : IsA(batch[j], "form_1") =>
                  form1_period_key(batch[j]) <= form1_period_key(batch[i])
             /\ \A key \in balance :
                  /\ r.value[key] = Says(batch[i], key, key[2])
                  /\ r.from[key].file = batch[i].name /\ r.from[key].column = key[2]

\* The sheet that is ahead is put in as a whole, over nothing.
LEMMA Executed ==
  ASSUME NEW batch, Len(batch) \in Nat, \A i \in 1 .. Len(batch) : IsFile(batch[i]),
         NEW r, r = execute(batch)
  PROVE  Answer(batch, r)
<1> DEFINE L == Len(batch)
           read == Readings(batch)[L]
           f == read.balance
           rows == [c \in {"end", "start"} |-> parse_form1(f, c)]
           offers == {Offer(<<x, c>>, rows[c][x], Current, f, c) : x \in BalanceField, c \in {"end", "start"}}
           merged == set_with_tier_priority(read, f, offers)
<1>1. /\ IsRead(read) /\ Shown(batch, L, read) /\ Ahead(batch, L, read.balance)
  BY AllShown
<1>2. r = apply_form1(read)
  BY DEF execute
<1>3. \A key \in DOMAIN read.value : key[1] \notin BalanceField
  <2>1. ASSUME NEW key \in DOMAIN read.value PROVE key[1] \notin BalanceField
    <3>1. PICK i \in 1 .. L : \E o \in OffersOf(batch[i]) : o.key = key
      BY <1>1 DEF Shown
    <3>2. IsFile(batch[i])
      OBVIOUS
    <3>3. QED
      BY <3>1, <3>2, OffersAreOfKeys
  <2>2. QED
    BY <2>1
<1> HIDE DEF read
<1>4. CASE f = Unknown
  <2>1. r = read
    BY <1>2, <1>4 DEF apply_form1
  <2>2. \A key \in DOMAIN r.value : \E i \in 1 .. L : \E o \in OffersOf(batch[i]) :
          /\ o.key = key /\ o.value # Unknown /\ o.value = r.value[key]
          /\ o.from = r.from[key] /\ First(batch, L, r.told, i, o)
    BY <1>1, <2>1 DEF Shown
  <2>3. \A j \in 1 .. L : \A p \in OffersOf(batch[j]) : p.value # Unknown => p.key \in DOMAIN r.value
    BY <1>1, <2>1 DEF Shown
  <2>4. QED
    BY <1>1, <1>3, <2>1, <2>2, <2>3 DEF Answer
<1>5. CASE f # Unknown
  <2>1. PICK s \in 1 .. L :
          /\ f = batch[s] /\ IsA(batch[s], "form_1")
          /\ \A j \in 1 .. L : IsA(batch[j], "form_1") =>
               form1_period_key(batch[j]) <= form1_period_key(batch[s])
    BY <1>1, <1>5 DEF Ahead
  <2>2. ASSUME NEW o \in offers
        PROVE  /\ o.key[1] \in BalanceField /\ o.key[2] \in {"end", "start"}
               /\ o.value = parse_form1(f, o.key[2])[o.key[1]]
               /\ o.from.file = f.name /\ o.from.column = o.key[2]
               /\ o = Offer(<<o.key[1], o.key[2]>>, rows[o.key[2]][o.key[1]], Current, f, o.key[2])
    BY DEF Offer
  <2> HIDE DEF offers, rows
  <2>3. \A o, p \in offers : o.key = p.key => o = p
    <3> SUFFICES ASSUME NEW o \in offers, NEW p \in offers, o.key = p.key PROVE o = p
      OBVIOUS
    <3>1. o.key[1] = p.key[1] /\ o.key[2] = p.key[2]
      OBVIOUS
    <3>2. QED
      BY <2>2, <3>1
  <2>4. Grown(read, f, offers, merged)
    BY <1>1, <2>3, OffersMerged DEF Grown
  <2>5. r = Tell(merged, f) \/ r = merged
    BY <1>2, <1>5 DEF apply_form1, offers, rows
  <2> HIDE DEF merged
  <2>6. /\ IsRead(r) /\ r.value = merged.value /\ r.tier = merged.tier /\ r.from = merged.from
        /\ merged.told \subseteq r.told
    <3>1. IsRead(merged)
      BY <2>4 DEF Grown
    <3>2. QED
      BY <2>5, <3>1 DEF Tell, IsRead
  <2>7. read.told \subseteq r.told /\ DOMAIN read.value \subseteq DOMAIN r.value
    BY <2>4, <2>6 DEF Grown
  <2>8. ASSUME NEW key \in DOMAIN r.value, key[1] \notin BalanceField
        PROVE  /\ key \in DOMAIN read.value
               /\ r.value[key] = read.value[key] /\ r.from[key] = read.from[key]
    <3>1. \A o \in offers : o.key # key
      BY <2>2, <2>8
    <3>2. key \in DOMAIN merged.value
      BY <2>6, <2>8
    <3>3. key \in DOMAIN read.value
      BY <2>4, <3>1, <3>2 DEF Grown
    <3>4. merged.value[key] = read.value[key] /\ merged.from[key] = read.from[key]
      BY <2>4, <3>1, <3>3 DEF Grown
    <3>5. QED
      BY <2>6, <3>3, <3>4
  <2>9. ASSUME NEW key \in DOMAIN r.value, key[1] \notin BalanceField
        PROVE  \E i \in 1 .. L : \E o \in OffersOf(batch[i]) :
                 /\ o.key = key /\ o.value # Unknown /\ o.value = r.value[key]
                 /\ o.from = r.from[key] /\ First(batch, L, r.told, i, o)
    <3>1. key \in DOMAIN read.value /\ r.value[key] = read.value[key] /\ r.from[key] = read.from[key]
      BY <2>8, <2>9
    <3>2. PICK i \in 1 .. L : \E o \in OffersOf(batch[i]) :
            /\ o.key = key /\ o.value # Unknown /\ o.value = read.value[key]
            /\ o.from = read.from[key] /\ First(batch, L, read.told, i, o)
      BY <1>1, <3>1 DEF Shown
    <3>3. PICK o \in OffersOf(batch[i]) :
            /\ o.key = key /\ o.value # Unknown /\ o.value = read.value[key]
            /\ o.from = read.from[key] /\ First(batch, L, read.told, i, o)
      BY <3>2
    <3>4. First(batch, L, r.told, i, o)
      BY <2>7, <3>3 DEF First
    <3>5. QED
      BY <3>1, <3>3, <3>4
  <2>10. \A j \in 1 .. L : \A p \in OffersOf(batch[j]) : p.value # Unknown => p.key \in DOMAIN r.value
    BY <1>1, <2>7 DEF Shown
  <2>11. ASSUME NEW key \in DOMAIN r.value, key[1] \in BalanceField
         PROVE  /\ r.value[key] = Says(batch[s], key, key[2])
                /\ r.from[key].file = batch[s].name /\ r.from[key].column = key[2]
    <3>1. PICK o \in offers : o.key = key /\ Wins(read, o)
      BY <1>3, <2>4, <2>6, <2>11 DEF Grown
    <3>2. r.value[key] = o.value /\ r.from[key] = o.from
      BY <2>4, <2>6, <3>1 DEF Grown
    <3>3. Says(batch[s], key, key[2]) = parse_form1(f, key[2])[key[1]]
      BY <2>1 DEF Says, IsA
    <3>4. QED
      BY <2>1, <2>2, <3>1, <3>2, <3>3
  <2>12. QED
    BY <2>1, <2>6, <2>9, <2>10, <2>11 DEF Answer
<1>6. QED
  BY <1>4, <1>5
-----------------------------------------------------------------------------
(* The state of the dropzone.                                              *)

FilesInv == folder \in Folders /\ files \in Seq(folder)

LEMMA FilesAreFiles ==
  ASSUME FilesInv
  PROVE  Len(files) \in Nat /\ \A i \in 1 .. Len(files) : files[i] \in folder /\ IsFile(files[i])
<1>1. Len(files) \in Nat /\ \A i \in 1 .. Len(files) : files[i] \in folder
  BY DEF FilesInv
<1>2. \A f \in folder : IsFile(f)
  BY IntakeAssumption DEF FilesInv, IsFile
<1>3. QED
  BY <1>1, <1>2

LEMMA FilesStay == IntakeSpec => []FilesInv
<1>1. IntakeInit => FilesInv
  BY DEF IntakeInit, FilesInv
<1>2. FilesInv /\ [IntakeNext]_intakeVars => FilesInv'
  <2> SUFFICES ASSUME FilesInv, [IntakeNext]_intakeVars PROVE FilesInv'
    OBVIOUS
  <2>1. CASE AddFile
    BY <2>1, AppendProperties DEF AddFile, FilesInv
  <2>2. CASE RemoveFile
    <3>1. PICK i \in 1 .. Len(files) : files' = RemoveAt(files, i)
      BY <2>2 DEF RemoveFile, FilesInv
    <3>2. RemoveAt(files, i) \in Seq(folder)
      <4>1. Len(files) \in Nat
        BY DEF FilesInv
      <4>2. SubSeq(files, 1, i - 1) \in Seq(folder) /\ SubSeq(files, i + 1, Len(files)) \in Seq(folder)
        BY <4>1, SubSeqProperties DEF FilesInv
      <4>3. QED
        BY <4>2, ConcatProperties DEF RemoveAt
    <3>3. QED
      BY <2>2, <3>1, <3>2 DEF RemoveFile, FilesInv
  <2>3. CASE ParseFiles
    BY <2>3 DEF ParseFiles, FilesInv
  <2>4. CASE Type
    BY <2>4 DEF Type, FilesInv
  <2>5. CASE UNCHANGED intakeVars
    BY <2>5 DEF intakeVars, FilesInv
  <2>6. QED
    BY <2>1, <2>2, <2>3, <2>4, <2>5 DEF IntakeNext
<1>3. QED
  BY <1>1, <1>2, PTL DEF IntakeSpec

Rank(column) == IF column = "current" THEN Current ELSE Prior

\* A file offers a number for a key from a column.
Offers(f, key, column) ==
  \E o \in OffersOf(f) : /\ o.key = key /\ o.value # Unknown
                         /\ o.tier = Rank(column) /\ o.from.column = column

\* A report gives a number for a field just when it offers one.
LEMMA GivesOffers ==
  ASSUME NEW f, IsFile(f), NEW field \in {"revenue", "net_profit"}, NEW year \in KnownYears
  PROVE  /\ \A column \in {"current", "prior"} :
              Gives(f, field, year, column) => Offers(f, <<field, year>>, column)
         /\ \A o \in OffersOf(f) : o.key = <<field, year>> /\ o.value # Unknown =>
              Gives(f, field, year, IF o.tier = Current THEN "current" ELSE "prior")
<1> DEFINE now == {Offer(<<x, Year(f)>>, parse_form2(f, "current")[x], Current, f, "current") : x \in Results}
           before == {Offer(<<x, Year(f) - 1>>, parse_form2(f, "prior")[x], Prior, f, "prior") : x \in Results}
<1>1. field \in Results /\ year \in Int
  BY DEF Results, KnownYears
<1>2. IsA(f, "form_2") /\ WholeYear(f) => OffersOf(f) = now \cup before /\ Year(f) \in Int
  BY YearIsNumber DEF OffersOf, WholeYear
<1>3. ASSUME Gives(f, field, year, "current")
      PROVE  \E o \in OffersOf(f) : /\ o.key = <<field, year>> /\ o.value # Unknown
                                    /\ o.tier = Current /\ o.from.column = "current"
  <2> DEFINE o == Offer(<<field, Year(f)>>, parse_form2(f, "current")[field], Current, f, "current")
  <2>1. o \in OffersOf(f)
    BY <1>1, <1>2, <1>3 DEF Gives
  <2>2. o.key = <<field, year>> /\ o.value # Unknown /\ o.tier = Current /\ o.from.column = "current"
    BY <1>3 DEF Offer, Gives
  <2>3. QED
    BY <2>1, <2>2
<1>4. ASSUME Gives(f, field, year, "prior")
      PROVE  \E o \in OffersOf(f) : /\ o.key = <<field, year>> /\ o.value # Unknown
                                    /\ o.tier = Prior /\ o.from.column = "prior"
  <2> DEFINE o == Offer(<<field, Year(f) - 1>>, parse_form2(f, "prior")[field], Prior, f, "prior")
  <2>1. o \in OffersOf(f)
    BY <1>1, <1>2, <1>4 DEF Gives
  <2>2. Year(f) - 1 = year
    BY <1>1, <1>4 DEF Gives
  <2>3. o.key = <<field, year>> /\ o.value # Unknown /\ o.tier = Prior /\ o.from.column = "prior"
    BY <1>4, <2>2 DEF Offer, Gives
  <2>4. QED
    BY <2>1, <2>3
<1>5. ASSUME NEW o \in OffersOf(f), o.key = <<field, year>>, o.value # Unknown
      PROVE  Gives(f, field, year, IF o.tier = Current THEN "current" ELSE "prior")
  <2>1. IsA(f, "form_2") /\ WholeYear(f)
    <3>1. o.key[1] = field
      BY <1>5
    <3>2. field # "vat_declared" /\ field # "taxes_paid"
      OBVIOUS
    <3>3. \A p : p = Offer(<<"vat_declared", Year(f)>>, f.cells.charged, Current, f, "current")
                 \/ p = Offer(<<"taxes_paid", Year(f)>>, f.cells.total, Current, f, "current")
                 => p.key[1] # field
      BY <3>2 DEF Offer
    <3>4. QED
      BY <3>1, <3>3 DEF OffersOf
  <2>2. CASE o \in now
    <3>1. PICK x \in Results :
            o = Offer(<<x, Year(f)>>, parse_form2(f, "current")[x], Current, f, "current")
      BY <2>2
    <3>2. /\ o.key = <<x, Year(f)>> /\ o.value = parse_form2(f, "current")[x]
          /\ o.tier = Current
      BY <3>1 DEF Offer
    <3>3. x = field /\ Year(f) = year
      BY <1>5, <3>2
    <3>4. QED
      BY <1>5, <2>1, <3>2, <3>3 DEF Gives
  <2>3. CASE o \in before
    <3>1. PICK x \in Results :
            o = Offer(<<x, Year(f) - 1>>, parse_form2(f, "prior")[x], Prior, f, "prior")
      BY <2>3
    <3>2. /\ o.key = <<x, Year(f) - 1>> /\ o.value = parse_form2(f, "prior")[x]
          /\ o.tier = Prior
      BY <3>1 DEF Offer
    <3>3. x = field /\ Year(f) - 1 = year
      BY <1>5, <3>2
    <3>4. Year(f) = year + 1
      BY <1>1, <1>2, <2>1, <3>3
    <3>5. QED
      BY <1>5, <2>1, <3>2, <3>3, <3>4 DEF Gives, Prior, Current
  <2>4. QED
    BY <1>2, <2>1, <2>2, <2>3
<1>6. Rank("current") = Current /\ Rank("prior") = Prior
  BY DEF Rank
<1>7. QED
  BY <1>3, <1>4, <1>5, <1>6 DEF Offers

\* The first report that gives the number of a column is the one that is shown,
\* if none gives one of a higher rank.
LEMMA FirstShown ==
  ASSUME FilesInv, NEW r, Answer(files, r),
         NEW field \in {"revenue", "net_profit"}, NEW year \in KnownYears,
         NEW column \in {"current", "prior"},
         column = "prior" =>
           \A i \in DOMAIN files : ~Gives(files[i], field, year, "current")
  PROVE  FirstIsShown(r, field, year, column)
<1> DEFINE L == Len(files)
           key == <<field, year>>
           tier == Rank(column)
<1>1. /\ L \in Nat /\ DOMAIN files = 1 .. L
      /\ \A i \in 1 .. L : IsFile(files[i])
  <2>1. DOMAIN files = 1 .. L
    BY DEF FilesInv
  <2>2. QED
    BY <2>1, FilesAreFiles
<1>2. field \notin BalanceField /\ key[1] = field
  BY DEF BalanceField
<1>3. ASSUME NEW i \in 1 .. L, Gives(files[i], field, year, column)
      PROVE  \E o \in OffersOf(files[i]) :
               o.key = key /\ o.value # Unknown /\ o.tier = tier /\ o.from.column = column
  <2>1. IsFile(files[i])
    BY <1>1
  <2>2. Offers(files[i], <<field, year>>, column)
    BY <1>3, <2>1, GivesOffers
  <2>3. QED
    BY <2>2 DEF Offers
<1>4. ASSUME NEW i \in 1 .. L, NEW o \in OffersOf(files[i]), o.key = key, o.value # Unknown
      PROVE  Gives(files[i], field, year, IF o.tier = Current THEN "current" ELSE "prior")
  <2>1. IsFile(files[i])
    BY <1>1
  <2>2. QED
    BY <1>4, <2>1, GivesOffers
<1>5. SUFFICES ASSUME NEW i \in 1 .. L, Gives(files[i], field, year, column)
               PROVE  IF \E j \in 1 .. i - 1 : Gives(files[j], field, year, column)
                      THEN files[i].name \in r.told
                      ELSE Shows(r, key, files[i], column)
  BY <1>1 DEF FirstIsShown
<1>6. PICK p \in OffersOf(files[i]) :
        p.key = key /\ p.value # Unknown /\ p.tier = tier /\ p.from.column = column
  BY <1>3, <1>5
<1>7. key \in DOMAIN r.value
  BY <1>6 DEF Answer
<1>8. PICK k \in 1 .. L : \E o \in OffersOf(files[k]) :
        /\ o.key = key /\ o.value # Unknown /\ o.value = r.value[key]
        /\ o.from = r.from[key] /\ First(files, L, r.told, k, o)
  BY <1>2, <1>7 DEF Answer
<1>9. PICK o \in OffersOf(files[k]) :
        /\ o.key = key /\ o.value # Unknown /\ o.value = r.value[key]
        /\ o.from = r.from[key] /\ First(files, L, r.told, k, o)
  BY <1>8
<1>10. o.tier = tier
  <2>1. p.tier <= o.tier
    BY <1>6, <1>9 DEF First
  <2>2. o.tier \in {Prior, Current}
    <3>1. IsFile(files[k])
      BY <1>1
    <3>2. QED
      BY <3>1, OffersAreOfKeys
  <2>3. CASE column = "current"
    BY <1>6, <2>1, <2>2, <2>3 DEF Prior, Current, Rank
  <2>4. CASE column = "prior"
    <3>1. ~Gives(files[k], field, year, "current")
      BY <1>1, <2>4
    <3>2. o.tier # Current
      BY <1>4, <1>9, <3>1
    <3>3. QED
      BY <2>2, <2>4, <3>2 DEF Rank
  <2>5. QED
    BY <2>3, <2>4
<1>11. Gives(files[k], field, year, column)
  <2>1. (IF o.tier = Current THEN "current" ELSE "prior") = column
    BY <1>10 DEF Current, Prior, Rank
  <2>2. QED
    BY <1>4, <1>9, <2>1
<1>12. ASSUME NEW j \in 1 .. L, Gives(files[j], field, year, column)
       PROVE  j = k \/ (k < j /\ files[j].name \in r.told)
  <2>1. PICK q \in OffersOf(files[j]) : q.key = key /\ q.value # Unknown /\ q.tier = tier
    BY <1>3, <1>12
  <2>2. QED
    BY <1>9, <1>10, <2>1 DEF First
<1>13. CASE \E j \in 1 .. i - 1 : Gives(files[j], field, year, column)
  <2>1. PICK j \in 1 .. i - 1 : Gives(files[j], field, year, column)
    BY <1>13
  <2>2. j \in 1 .. L /\ j < i
    BY <1>1
  <2>3. i # k
    BY <1>1, <1>12, <2>1, <2>2
  <2>4. QED
    BY <1>5, <1>12, <1>13, <2>3
<1>14. CASE ~\E j \in 1 .. i - 1 : Gives(files[j], field, year, column)
  <2>1. i = k
    <3>1. i = k \/ k < i
      BY <1>5, <1>12
    <3>2. k < i => k \in 1 .. i - 1
      BY <1>1
    <3>3. QED
      BY <1>11, <1>14, <3>1, <3>2
  <2>2. IsFile(files[i])
    BY <1>1
  <2>3. o = p
    BY <1>6, <1>9, <2>1, <2>2, OffersAreOfKeys
  <2>4. p.from.file = files[i].name /\ p.value = Says(files[i], p.key, p.from.column)
    BY <2>2, OffersAreOfKeys
  <2>5. Shows(r, key, files[i], column)
    BY <1>6, <1>7, <1>9, <2>3, <2>4 DEF Shows
  <2>6. QED
    BY <1>14, <2>5
<1>15. QED
  BY <1>13, <1>14

LEMMA OwnReportFirst ==
  ASSUME FilesInv
  PROVE  OwnReportIsShown
<1> DEFINE r == execute(files)
           sheets == {f \in ToSet(files) : IsA(f, "form_1")}
           balance == {key \in DOMAIN r.value : key[1] \in BalanceField}
<1>1. /\ Len(files) \in Nat /\ DOMAIN files = 1 .. Len(files)
      /\ \A i \in 1 .. Len(files) : IsFile(files[i])
  <2>1. DOMAIN files = 1 .. Len(files)
    BY DEF FilesInv
  <2>2. QED
    BY <2>1, FilesAreFiles
<1>2. Answer(files, r)
  BY <1>1, Executed
<1> HIDE DEF r
<1>3. ASSUME NEW field \in {"revenue", "net_profit"}, NEW year \in KnownYears
      PROVE  /\ FirstIsShown(r, field, year, "current")
             /\ (\A i \in DOMAIN files : ~Gives(files[i], field, year, "current"))
                  => FirstIsShown(r, field, year, "prior")
  BY <1>2, FirstShown
<1>4. ASSUME balance # {}
      PROVE  \E f \in sheets :
               /\ \A key \in balance : Shows(r, key, f, key[2])
               /\ \A other \in sheets : form1_period_key(other) <= form1_period_key(f)
  <2>1. PICK i \in 1 .. Len(files) :
          /\ IsA(files[i], "form_1")
          /\ \A j \in 1 .. Len(files) : IsA(files[j], "form_1") =>
               form1_period_key(files[j]) <= form1_period_key(files[i])
          /\ \A key \in balance :
               /\ r.value[key] = Says(files[i], key, key[2])
               /\ r.from[key].file = files[i].name /\ r.from[key].column = key[2]
    BY <1>2, <1>4 DEF Answer
  <2>2. files[i] \in sheets
    BY <1>1, <2>1 DEF ToSet
  <2>3. \A key \in balance : Shows(r, key, files[i], key[2])
    BY <2>1 DEF Shows
  <2>4. \A other \in sheets : form1_period_key(other) <= form1_period_key(files[i])
    BY <1>1, <2>1 DEF ToSet
  <2>5. QED
    BY <2>2, <2>3, <2>4
<1>5. QED
  BY <1>3, <1>4 DEF OwnReportIsShown, r

\* In whatever order the files were dropped, a year's own report is shown before
\* the comparison column of the next one's, of two reports of one year the first
\* with a warning for the other, and the balance is the newest sheet's as a
\* whole: _set_with_tier_priority, _consider_form1 and _apply_form1.
THEOREM OwnReportComesFirst == IntakeSpec => []OwnReportIsShown
  BY FilesStay, OwnReportFirst, PTL
-----------------------------------------------------------------------------
(* The marks.                                                              *)

\* Every number of an answer is what the named file says in the named column.
LEMMA AnswerIsSourced ==
  ASSUME FilesInv, NEW r, Answer(files, r), NEW key \in DOMAIN r.value
  PROVE  \E f \in folder :
           /\ f.name = r.from[key].file
           /\ r.value[key] = Says(f, key, r.from[key].column)
<1>1. \A i \in 1 .. Len(files) : files[i] \in folder /\ IsFile(files[i])
  BY FilesAreFiles
<1>2. CASE key[1] \in BalanceField
  <2>1. PICK i \in 1 .. Len(files) :
          /\ r.value[key] = Says(files[i], key, key[2])
          /\ r.from[key].file = files[i].name /\ r.from[key].column = key[2]
    BY <1>2 DEF Answer
  <2>2. QED
    BY <1>1, <2>1
<1>3. CASE key[1] \notin BalanceField
  <2>1. PICK i \in 1 .. Len(files) : \E o \in OffersOf(files[i]) :
          o.key = key /\ o.value = r.value[key] /\ o.from = r.from[key]
    BY <1>3 DEF Answer
  <2>2. PICK o \in OffersOf(files[i]) :
          o.key = key /\ o.value = r.value[key] /\ o.from = r.from[key]
    BY <2>1
  <2>3. IsFile(files[i]) /\ files[i] \in folder
    BY <1>1
  <2>4. o.from.file = files[i].name /\ o.value = Says(files[i], o.key, o.from.column)
    BY <2>3, OffersAreOfKeys
  <2>5. QED
    BY <2>2, <2>3, <2>4
<1>4. QED
  BY <1>2, <1>3

\* The fields the parser filled are fields of the form: a number without a field
\* is in the trail only.
MarkedInv == MarkedFieldsAreTrue /\ \A key \in DOMAIN parsed : HasField(key)

LEMMA ParsedIsMarked ==
  ASSUME FilesInv, MarkedInv, ParseFiles
  PROVE  MarkedInv'
<1> DEFINE r == execute(files)
           put == [k \in {k \in DOMAIN r.value : HasField(k)} |-> normalizeDigits(r.value[k])]
<1>1. /\ filled' = Over(put, filled) /\ parsed' = Over(put, parsed)
      /\ trail' = Over(r.from, trail) /\ folder' = folder
  BY DEF ParseFiles, Merged
<1>2. Answer(files, r)
  BY FilesAreFiles, Executed
<1>3. DOMAIN r.from = DOMAIN r.value
  BY <1>2 DEF Answer, IsRead
<1> HIDE DEF r
<1>4. /\ DOMAIN put = {k \in DOMAIN r.value : HasField(k)}
      /\ \A k \in DOMAIN put : put[k] = normalizeDigits(r.value[k])
  OBVIOUS
<1> HIDE DEF put
<1>5. /\ DOMAIN parsed' = DOMAIN put \cup DOMAIN parsed
      /\ DOMAIN filled' = DOMAIN put \cup DOMAIN filled
      /\ DOMAIN trail' = DOMAIN r.value \cup DOMAIN trail
  BY <1>1, <1>3 DEF Over
<1>6. /\ \A k \in DOMAIN put : parsed'[k] = put[k] /\ filled'[k] = put[k]
      /\ \A k \in DOMAIN r.value : trail'[k] = r.from[k]
  BY <1>1, <1>3 DEF Over
<1>7. /\ \A k \in DOMAIN parsed \ DOMAIN put : parsed'[k] = parsed[k]
      /\ \A k \in DOMAIN filled \ DOMAIN put : filled'[k] = filled[k]
      /\ \A k \in DOMAIN trail \ DOMAIN r.value : trail'[k] = trail[k]
  BY <1>1, <1>3 DEF Over
<1>8. ASSUME NEW key \in DOMAIN parsed'
      PROVE  /\ HasField(key) /\ key \in DOMAIN trail' /\ key \in DOMAIN filled'
             /\ \/ filled'[key] = parsed'[key]
                \/ \E entry \in Typed : entry.key = key /\ entry.value = filled'[key]
             /\ \E f \in folder' :
                  /\ f.name = trail'[key].file
                  /\ parsed'[key] = normalizeDigits(Says(f, key, trail'[key].column))
  <2>1. CASE key \in DOMAIN put
    <3>1. key \in DOMAIN r.value /\ HasField(key)
      BY <1>4, <2>1
    <3>2. PICK f \in folder : /\ f.name = r.from[key].file
                              /\ r.value[key] = Says(f, key, r.from[key].column)
      BY <1>2, <3>1, AnswerIsSourced
    <3>3. trail'[key] = r.from[key] /\ parsed'[key] = normalizeDigits(r.value[key])
          /\ filled'[key] = parsed'[key]
      BY <1>4, <1>6, <2>1, <3>1
    <3>4. QED
      BY <1>1, <1>5, <2>1, <3>1, <3>2, <3>3
  <2>2. CASE key \notin DOMAIN put
    <3>1. key \in DOMAIN parsed /\ HasField(key)
      BY <1>5, <1>8, <2>2 DEF MarkedInv
    <3>2. key \notin DOMAIN r.value
      BY <1>4, <2>2, <3>1
    <3>3. key \in DOMAIN trail /\ key \in DOMAIN filled
      BY <3>1 DEF MarkedInv, MarkedFieldsAreTrue
    <3>4. trail'[key] = trail[key] /\ parsed'[key] = parsed[key] /\ filled'[key] = filled[key]
      BY <1>7, <2>2, <3>1, <3>2, <3>3
    <3>5. QED
      BY <1>1, <1>5, <3>1, <3>3, <3>4 DEF MarkedInv, MarkedFieldsAreTrue
  <2>3. QED
    BY <2>1, <2>2
<1>9. QED
  BY <1>8 DEF MarkedInv, MarkedFieldsAreTrue

LEMMA MarksStay == IntakeSpec => []MarkedInv
<1>1. IntakeInit => MarkedInv
  BY DEF IntakeInit, MarkedInv, MarkedFieldsAreTrue, Empty
<1>2. FilesInv /\ MarkedInv /\ [IntakeNext]_intakeVars => MarkedInv'
  <2> SUFFICES ASSUME FilesInv, MarkedInv, [IntakeNext]_intakeVars PROVE MarkedInv'
    OBVIOUS
  <2>1. CASE AddFile
    BY <2>1 DEF AddFile, MarkedInv, MarkedFieldsAreTrue
  <2>2. CASE RemoveFile
    BY <2>2 DEF RemoveFile, MarkedInv, MarkedFieldsAreTrue
  <2>3. CASE ParseFiles
    BY <2>3, ParsedIsMarked
  <2>4. CASE Type
    <3>1. PICK entry \in Typed : filled' = Over([k \in {entry.key} |-> entry.value], filled)
      BY <2>4 DEF Type
    <3>2. folder' = folder /\ parsed' = parsed /\ trail' = trail
      BY <2>4 DEF Type
    <3>3. /\ DOMAIN filled' = {entry.key} \cup DOMAIN filled
          /\ filled'[entry.key] = entry.value
          /\ \A k \in DOMAIN filled \ {entry.key} : filled'[k] = filled[k]
      BY <3>1 DEF Over
    <3>4. ASSUME NEW key \in DOMAIN parsed
          PROVE  /\ key \in DOMAIN filled'
                 /\ \/ filled'[key] = parsed[key]
                    \/ \E e \in Typed : e.key = key /\ e.value = filled'[key]
      <4>1. CASE key = entry.key
        BY <3>3, <4>1
      <4>2. CASE key # entry.key
        BY <3>3, <4>2 DEF MarkedInv, MarkedFieldsAreTrue
      <4>3. QED
        BY <4>1, <4>2
    <3>5. QED
      BY <3>2, <3>4 DEF MarkedInv, MarkedFieldsAreTrue
  <2>5. CASE UNCHANGED intakeVars
    BY <2>5 DEF intakeVars, MarkedInv, MarkedFieldsAreTrue
  <2>6. QED
    BY <2>1, <2>2, <2>3, <2>4, <2>5 DEF IntakeNext
<1>3. QED
  BY <1>1, <1>2, FilesStay, PTL DEF IntakeSpec

\* A field filled by the parser is marked, and holds what a file of the name on
\* the mark says in the column on the mark, until the analyst types over it:
\* mergeParsedValues and mergeSourceTrail after any uploads and removals.
THEOREM MarksAreTrue == IntakeSpec => []MarkedFieldsAreTrue
<1>1. MarkedInv => MarkedFieldsAreTrue
  BY DEF MarkedInv
<1>2. QED
  BY <1>1, MarksStay, PTL
-----------------------------------------------------------------------------
(* The readiness of the draft.                                             *)

LEMMA KnownYearsFinite == IsFiniteSet(KnownYears)
<1>1. PICK a, b \in Int : a = 2023 /\ b = 2025
  OBVIOUS
<1>2. IsFiniteSet(a .. b)
  BY FS_Interval
<1>3. KnownYears = a .. b
  BY <1>1 DEF KnownYears
<1>4. QED
  BY <1>2, <1>3

RunLength(years) ==
  IF years = {} THEN 0
  ELSE IF years = KnownYears THEN 3
  ELSE IF {2023, 2024} \subseteq years \/ {2024, 2025} \subseteq years THEN 2 ELSE 1

\* What max_consecutive_run comes to for the years of the form.
LEMMA RunIs ==
  ASSUME NEW years, years \subseteq KnownYears
  PROVE  max_consecutive_run(years) = RunLength(years)
<1> DEFINE Is(n) == /\ n = 0 <=> years = {}
                    /\ \E y \in years \cup {0} : y .. (y + n - 1) \subseteq years
                    /\ \A y \in years : ~(y .. (y + n) \subseteq years)
           r == RunLength(years)
<1>1. IsFiniteSet(years) /\ Cardinality(years) \in Nat
  <2>1. IsFiniteSet(years)
    BY KnownYearsFinite, FS_Subset
  <2>2. QED
    BY <2>1, FS_CardinalityType
<1>2. r \in 0 .. 3
  BY DEF RunLength
<1>3. Is(r)
  <2>1. CASE years = {}
    BY <2>1 DEF RunLength
  <2>2. CASE years = KnownYears
    <3>1. r = 3 /\ years # {}
      BY <2>2 DEF RunLength, KnownYears
    <3>2. 2023 \in years /\ 2023 .. (2023 + 3 - 1) \subseteq years
      BY <2>2 DEF KnownYears
    <3>3. ASSUME NEW y \in years PROVE ~(y .. (y + 3) \subseteq years)
      <4>1. y + 3 \in y .. (y + 3) /\ y + 3 \notin years
        BY <2>2, <3>3 DEF KnownYears
      <4>2. QED
        BY <4>1
    <3>4. QED
      BY <3>1, <3>2, <3>3
  <2>3. CASE /\ years # {} /\ years # KnownYears
             /\ {2023, 2024} \subseteq years \/ {2024, 2025} \subseteq years
    <3>1. r = 2
      BY <2>3 DEF RunLength
    <3>2. \E y \in years : y .. (y + 2 - 1) \subseteq years
      <4>1. CASE {2023, 2024} \subseteq years
        <5>1. 2023 \in years /\ 2023 .. (2023 + 2 - 1) \subseteq years
          BY <4>1
        <5>2. QED
          BY <5>1
      <4>2. CASE {2024, 2025} \subseteq years
        <5>1. 2024 \in years /\ 2024 .. (2024 + 2 - 1) \subseteq years
          BY <4>2
        <5>2. QED
          BY <5>1
      <4>3. QED
        BY <2>3, <4>1, <4>2
    <3>3. ASSUME NEW y \in years, y .. (y + 2) \subseteq years PROVE FALSE
      <4>1. y \in {2023, 2024, 2025}
        BY DEF KnownYears
      <4>2. y \in y .. (y + 2) /\ y + 1 \in y .. (y + 2) /\ y + 2 \in y .. (y + 2)
        BY <4>1
      <4>3. y + 2 \in {2023, 2024, 2025} /\ y + 1 \in years /\ y + 2 \in years
        BY <3>3, <4>2 DEF KnownYears
      <4>4. y = 2023
        BY <4>1, <4>3
      <4>5. years = KnownYears
        <5>1. 2023 \in years /\ 2024 \in years /\ 2025 \in years
          BY <4>3, <4>4
        <5>2. \A x \in KnownYears : x \in years
          BY <5>1 DEF KnownYears
        <5>3. QED
          BY <5>2
      <4>6. QED
        BY <2>3, <4>5
    <3>4. QED
      BY <2>3, <3>1, <3>2, <3>3
  <2>4. CASE /\ years # {} /\ years # KnownYears
             /\ ~({2023, 2024} \subseteq years \/ {2024, 2025} \subseteq years)
    <3>1. r = 1
      BY <2>4 DEF RunLength
    <3>2. PICK y \in years : TRUE
      BY <2>4
    <3>3. y .. (y + 1 - 1) \subseteq years
      BY <3>2 DEF KnownYears
    <3>4. ASSUME NEW z \in years, z .. (z + 1) \subseteq years PROVE FALSE
      <4>1. z \in {2023, 2024, 2025}
        BY DEF KnownYears
      <4>2. z + 1 \in years
        BY <3>4, <4>1
      <4>3. z + 1 \in {2023, 2024, 2025}
        BY <4>2 DEF KnownYears
      <4>4. QED
        BY <2>4, <4>1, <4>2, <4>3
    <3>5. QED
      BY <2>4, <3>1, <3>2, <3>3, <3>4
  <2>5. QED
    BY <2>1, <2>2, <2>3, <2>4
<1>4. r \in 0 .. Cardinality(years)
  <2> SUFFICES ASSUME r # 0 PROVE r <= Cardinality(years)
    BY <1>1, <1>2
  <2>1. PICK y \in years : y .. (y + r - 1) \subseteq years
    <3>1. PICK y \in years \cup {0} : y .. (y + r - 1) \subseteq years
      BY <1>3
    <3>2. y \in years
      BY <1>2, <3>1
    <3>3. QED
      BY <3>1, <3>2
  <2>2. y \in Int
    BY DEF KnownYears
  <2>3. Cardinality(y .. (y + r - 1)) = r
    BY <1>2, <2>2, FS_Interval
  <2>4. QED
    BY <1>1, <2>1, <2>3, FS_Subset
<1>5. ASSUME NEW n \in 0 .. Cardinality(years), Is(n) PROVE n = r
  <2>1. \A a, b \in Nat : Is(a) /\ Is(b) => ~(a < b)
    <3> SUFFICES ASSUME NEW a \in Nat, NEW b \in Nat, Is(a), Is(b), a < b PROVE FALSE
      OBVIOUS
    <3>1. PICK y \in years \cup {0} : y .. (y + b - 1) \subseteq years
      OBVIOUS
    <3>2. y \in Int /\ y \in y .. (y + b - 1)
      BY DEF KnownYears
    <3>3. y \in years /\ y .. (y + a) \subseteq y .. (y + b - 1)
      BY <3>1, <3>2
    <3>4. QED
      BY <3>1, <3>3
  <2>2. n \in Nat /\ r \in Nat
    BY <1>1, <1>2
  <2> HIDE DEF Is, r
  <2>3. QED
    BY <1>3, <1>5, <2>1, <2>2
<1>6. max_consecutive_run(years) = CHOOSE n \in 0 .. Cardinality(years) : Is(n)
  BY DEF max_consecutive_run
<1> HIDE DEF Is, r
<1>7. max_consecutive_run(years) = r
  BY <1>3, <1>4, <1>5, <1>6
<1>8. QED
  BY <1>7 DEF r

\* More years and more sources never make less of a draft.
LEMMA MoreIsNoWorse ==
  ASSUME NEW Y, NEW Z, Y \subseteq Z, Z \subseteq KnownYears, NEW M, NEW N, M \subseteq N
  PROVE  NoWorse(assess_draft_readiness(Z, {}, {}, N), assess_draft_readiness(Y, {}, {}, M))
<1> DEFINE sources(names) == source_trail_to_parser_sources(names)
           hasForm1(names) == "form_1" \in sources(names)
           hasTax(names) == sources(names) \cap {"esf_csv", "profit_tax"} # {}
           run(years) == max_consecutive_run(years)
           before == assess_draft_readiness(Y, {}, {}, M)
           after == assess_draft_readiness(Z, {}, {}, N)
<1>1. ASSUME NEW years, NEW names
      PROVE  LET it == assess_draft_readiness(years, {}, {}, names)
             IN  /\ it.level = classify_level(run(years), hasForm1(names), hasTax(names))
                 /\ it.missing = missing_capabilities(run(years), hasForm1(names), hasTax(names))
                 /\ it.score = confidence_score(Cardinality(years), hasForm1(names), hasTax(names))
  <2> DEFINE synthetic == {<<y, q>> : y \in {}, q \in 1 .. 4} \cup {<<y, 1>> : y \in {}}
             reports == [r \in synthetic |-> r[1]]
  <2>1. synthetic = {}
    OBVIOUS
  <2>2. DOMAIN reports = {}
    BY <2>1
  <2>3. assess_draft_readiness(years, {}, {}, names) = assess_readiness(years, reports, sources(names))
    BY DEF assess_draft_readiness
  <2> HIDE DEF reports, sources
  <2>4. full_years(years, reports) = years
    BY <2>2 DEF full_years
  <2>5. QED
    BY <2>3, <2>4 DEF assess_readiness
<1>2. run(Y) = RunLength(Y) /\ run(Z) = RunLength(Z)
  BY RunIs
<1>3. run(Y) \in 0 .. 3 /\ run(Z) \in 0 .. 3 /\ run(Y) <= run(Z)
  <2>1. RunLength(Y) \in 0 .. 3 /\ RunLength(Z) \in 0 .. 3
    BY DEF RunLength
  <2>2. Y = KnownYears => Z = KnownYears
    OBVIOUS
  <2>3. RunLength(Y) <= RunLength(Z)
    <3>1. CASE Y = {}
      BY <2>1, <3>1 DEF RunLength
    <3>2. CASE Z = KnownYears
      <4>1. RunLength(Z) = 3
        BY <3>2 DEF RunLength, KnownYears
      <4>2. QED
        BY <2>1, <4>1
    <3>3. CASE Y # {} /\ Z # KnownYears
      BY <2>2, <3>3 DEF RunLength
    <3>4. QED
      BY <3>1, <3>2, <3>3
  <2> HIDE DEF run
  <2>4. QED
    BY <1>2, <2>1, <2>3
<1>4. (hasForm1(M) => hasForm1(N)) /\ (hasTax(M) => hasTax(N))
  <2>1. sources(M) \subseteq sources(N)
    BY DEF source_trail_to_parser_sources
  <2> HIDE DEF sources
  <2>2. QED
    BY <2>1
<1>5. Cardinality(Y) \in Nat /\ Cardinality(Z) \in Nat /\ Cardinality(Y) <= Cardinality(Z)
  <2>1. IsFiniteSet(Z)
    BY KnownYearsFinite, FS_Subset
  <2>2. IsFiniteSet(Y) /\ Cardinality(Y) <= Cardinality(Z)
    BY <2>1, FS_Subset
  <2>3. QED
    BY <2>1, <2>2, FS_CardinalityType
<1>6. hasForm1(M) \in BOOLEAN /\ hasForm1(N) \in BOOLEAN /\ hasTax(M) \in BOOLEAN /\ hasTax(N) \in BOOLEAN
  OBVIOUS
<1> HIDE DEF run, hasForm1, hasTax
<1>7. after.missing \subseteq before.missing
  <2>1. missing_capabilities(run(Z), hasForm1(N), hasTax(N))
          \subseteq missing_capabilities(run(Y), hasForm1(M), hasTax(M))
    BY <1>3, <1>4 DEF missing_capabilities
  <2>2. QED
    BY <1>1, <2>1
<1>8. after.score >= before.score
  <2>1. confidence_score(Cardinality(Z), hasForm1(N), hasTax(N))
          >= confidence_score(Cardinality(Y), hasForm1(M), hasTax(M))
    BY <1>4, <1>5 DEF confidence_score
  <2>2. QED
    BY <1>1, <2>1
<1>9. \E i, j \in DOMAIN Level : Level[i] = after.level /\ Level[j] = before.level /\ i >= j
  <2> DEFINE Place(r, f, t) == IF r >= 3 /\ f /\ t THEN 4 ELSE IF r >= 2 THEN 3 ELSE r + 1
  <2>1. ASSUME NEW r \in 0 .. 3, NEW f \in BOOLEAN, NEW t \in BOOLEAN
        PROVE  /\ Place(r, f, t) \in DOMAIN Level
               /\ Level[Place(r, f, t)] = classify_level(r, f, t)
    <3>1. CASE r >= 3 /\ f /\ t
      BY <3>1 DEF Level, classify_level
    <3>2. CASE r >= 2 /\ ~(r >= 3 /\ f /\ t)
      BY <3>2 DEF Level, classify_level
    <3>3. CASE r = 1
      BY <3>3 DEF Level, classify_level
    <3>4. CASE r = 0
      BY <3>4 DEF Level, classify_level
    <3>5. QED
      BY <3>1, <3>2, <3>3, <3>4
  <2>2. Place(run(Z), hasForm1(N), hasTax(N)) >= Place(run(Y), hasForm1(M), hasTax(M))
    BY <1>3, <1>4
  <2> HIDE DEF Place
  <2>3. /\ Place(run(Z), hasForm1(N), hasTax(N)) \in DOMAIN Level
        /\ Level[Place(run(Z), hasForm1(N), hasTax(N))] = after.level
    BY <1>1, <1>3, <1>6, <2>1
  <2>4. /\ Place(run(Y), hasForm1(M), hasTax(M)) \in DOMAIN Level
        /\ Level[Place(run(Y), hasForm1(M), hasTax(M))] = before.level
    BY <1>1, <1>3, <1>6, <2>1
  <2>5. QED
    BY <2>2, <2>3, <2>4
<1>10. QED
  BY <1>7, <1>8, <1>9 DEF NoWorse

\* Every field that holds a value is a field of the form.
FilledInv == \A key \in DOMAIN filled : HasField(key)

LEMMA FilledStay == IntakeSpec => []FilledInv
<1>1. IntakeInit => FilledInv
  BY DEF IntakeInit, FilledInv, Empty
<1>2. FilledInv /\ [IntakeNext]_intakeVars => FilledInv'
  <2> SUFFICES ASSUME FilledInv, [IntakeNext]_intakeVars PROVE FilledInv'
    OBVIOUS
  <2>1. CASE AddFile \/ RemoveFile \/ UNCHANGED intakeVars
    BY <2>1 DEF AddFile, RemoveFile, intakeVars, FilledInv
  <2>2. CASE ParseFiles
    <3> DEFINE read == execute(files)
               put == [k \in {k \in DOMAIN read.value : HasField(k)} |-> normalizeDigits(read.value[k])]
    <3>1. filled' = Over(put, filled)
      BY <2>2 DEF ParseFiles
    <3>2. DOMAIN filled' = DOMAIN put \cup DOMAIN filled
      BY <3>1 DEF Over
    <3>3. \A key \in DOMAIN put : HasField(key)
      OBVIOUS
    <3> HIDE DEF put
    <3>4. QED
      BY <3>2, <3>3 DEF FilledInv
  <2>3. CASE Type
    BY <2>3, TypedAssumption DEF Type, Over, FilledInv
  <2>4. QED
    BY <2>1, <2>2, <2>3 DEF IntakeNext
<1>3. QED
  BY <1>1, <1>2, PTL DEF IntakeSpec

\* Sending more or other files never makes the draft look less ready, unless a
\* report says that a year had no revenue: the trail is merged, never replaced
\* (mergeSourceTrail), and readiness asks only what fields it names.
THEOREM MoreFilesAreNoWorse == IntakeSpec => ReadinessNeverFalls
<1>1. FilledInv /\ FilledInv' /\ [IntakeNext]_intakeVars =>
        [ParseFiles /\ Years \subseteq Years' => NoWorse(readiness', readiness)]_intakeVars
  <2> SUFFICES ASSUME FilledInv', ParseFiles, Years \subseteq Years'
               PROVE  NoWorse(readiness', readiness)
    OBVIOUS
  <2>1. Years' \subseteq KnownYears
    BY DEF Years, FilledInv, HasField, BalanceField
  <2>2. DOMAIN trail \subseteq DOMAIN trail'
    <3>1. PICK from : trail' = Over(from, trail)
      BY DEF ParseFiles, Merged
    <3>2. QED
      BY <3>1 DEF Over
  <2> DEFINE names == {key[1] : key \in DOMAIN trail}
  <2>3. names \subseteq names'
    BY <2>2
  <2>4. /\ readiness = assess_draft_readiness(Years, {}, {}, names)
        /\ readiness' = assess_draft_readiness(Years', {}, {}, names')
    BY DEF readiness
  <2> HIDE DEF names
  <2>5. QED
    BY <2>1, <2>3, <2>4, MoreIsNoWorse
<1>2. QED
  BY <1>1, FilledStay, PTL DEF IntakeSpec, ReadinessNeverFalls
=============================================================================
