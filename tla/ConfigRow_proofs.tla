------------------------- MODULE ConfigRow_proofs --------------------------
(***************************************************************************)
(* Proofs about Threshold and ConfigRow: clamp_config makes safe settings  *)
(* of any row a database can hold, NULL, NaN and numbers of any size       *)
(* included; and whoever writes the row, and whatever is typed into the    *)
(* form, the controller runs on such settings.                             *)
(***************************************************************************)
EXTENDS ConfigRow, TLAPS

USE ThresholdAssumption

-----------------------------------------------------------------------------
(* clamp_config and the classification of a reading.                       *)

\* max(lo, v) is a number of at least lo, NaN or not.
LEMMA AtLeastBounds ==
    ASSUME NEW lo \in Int, NEW v \in Number
    PROVE  /\ AtLeast(lo, v) \in Int /\ AtLeast(lo, v) >= lo
           /\ v \in Int => AtLeast(lo, v) >= v
           /\ v \in Int /\ lo <= v => AtLeast(lo, v) = v
BY DEF AtLeast, Number

LEMMA AtLeastZero == \A v \in Number : AtLeast(0, v) \in Nat
BY DEF AtLeast, Number

\* min(v, hi) leaves a NaN and bounds a number.
LEMMA CappedBounds ==
    ASSUME NEW hi \in Int, NEW v \in Number
    PROVE  /\ Capped(v, hi) \in Number
           /\ Capped(v, hi) \in Int => Capped(v, hi) <= hi
BY DEF Capped, Number

\* max(lo, min(v, hi)) lies between lo and hi.
LEMMA ClampBounds ==
    ASSUME NEW lo \in Int, NEW hi \in Int, lo <= hi, NEW v \in Number
    PROVE  /\ AtLeast(lo, Capped(v, hi)) \in Int
           /\ lo <= AtLeast(lo, Capped(v, hi)) /\ AtLeast(lo, Capped(v, hi)) <= hi
BY DEF AtLeast, Capped, Number

\* The OFF-threshold ends below a positive minimum of the ON-threshold.
LEMMA OffBelowMin ==
    ASSUME NEW off \in Nat, NEW min \in Nat
    PROVE  OffBelow(off, min) \in Nat /\ (min > 0 => OffBelow(off, min) < min)
BY DEF OffBelow, AtLeast, Number

\* A product of two natural numbers grows with both.
LEMMA Products ==
    ASSUME NEW a \in Nat, NEW b \in Nat, NEW f \in Nat, NEW r \in Nat,
           a <= b, f <= r
    PROVE  (b - a) * f <= (b - a) * r /\ (b - a) * r = b * r - a * r
<1>1. \A d \in Nat : d * f <= d * r
    OBVIOUS
<1>2. b - a \in Nat
    OBVIOUS
<1>3. (b - a) * r = b * r - a * r
    OBVIOUS
<1> QED BY <1>1, <1>2, <1>3

\* What every column is worth after clamp_config.
LEMMA ClampedTyped ==
    ASSUME NEW raw \in RawRows
    PROVE  LET c == Clamped(raw) IN
           /\ c.mode \in ValidModes /\ c.adapt \in BOOLEAN
           /\ c.base \in Nat /\ c.min \in Nat /\ c.off \in Nat /\ c.ref \in Nat \ {0}
           /\ c.nominal \in 0..NominalCap /\ c.run \in Nat /\ c.run >= RunFloor
           /\ c.min <= c.base /\ (c.min > 0 => c.off < c.min)
<1> DEFINE Value(field) == OrDefault(raw, field)
           base == AtLeast(0, Value("base"))
           min  == AtLeast(0, Capped(Value("min"), base))
           off  == AtLeast(0, Value("off"))
<1>1. /\ Value("base") \in Number /\ Value("min") \in Number /\ Value("off") \in Number
      /\ Value("ref") \in Number /\ Value("nominal") \in Number /\ Value("run") \in Int
      /\ Value("adapt") \in BOOLEAN
    BY DEF OrDefault, RawRows, Number
<1> HIDE DEF Value
<1>2. base \in Nat
    BY <1>1, AtLeastZero
<1>3. min \in Nat /\ min <= base
    BY <1>1, <1>2, ClampBounds
<1>4. off \in Nat
    BY <1>1, AtLeastZero
<1>5. OffBelow(off, min) \in Nat /\ (min > 0 => OffBelow(off, min) < min)
    BY <1>3, <1>4, OffBelowMin
<1>6. AtLeast(1, Value("ref")) \in Nat \ {0}
    BY <1>1, AtLeastBounds
<1>7. AtLeast(0, Capped(Value("nominal"), NominalCap)) \in 0..NominalCap
    <2>1. NominalCap \in Int /\ 0 <= NominalCap /\ Value("nominal") \in Number
        BY <1>1
    <2> QED BY <2>1, ClampBounds
<1>8. AtLeast(RunFloor, Value("run")) \in Nat /\ AtLeast(RunFloor, Value("run")) >= RunFloor
    <2>1. RunFloor \in Nat /\ Value("run") \in Number
        BY <1>1 DEF Number
    <2> QED BY <2>1, AtLeastBounds
<1> DEFINE mode == IF Value("mode") \in ValidModes THEN Value("mode") ELSE "paused"
<1>9. mode \in ValidModes
    BY DEF ValidModes
<1> USE DEF Value
<1>10. Clamped(raw) =
         [mode |-> mode, adapt |-> Value("adapt"), base |-> base, min |-> min,
          off |-> OffBelow(off, min), ref |-> AtLeast(1, Value("ref")),
          nominal |-> AtLeast(0, Capped(Value("nominal"), NominalCap)),
          run |-> AtLeast(RunFloor, Value("run"))]
    BY DEF Clamped
<1> HIDE DEF Value, base, min, off, mode
<1> QED BY <1>1, <1>2, <1>3, <1>4, <1>5, <1>6, <1>7, <1>8, <1>9, <1>10

\* The forecast's share of a full day is between none of it and all of it.
LEMMA FactorBounds ==
    ASSUME NEW c, c.ref \in Nat, NEW remaining \in Number
    PROVE  Factor(c, remaining) \in 0..c.ref
BY DEF Factor, AtLeast, Lesser, Number

\* The forecast moves the ON-threshold between its minimum and its base.
LEMMA EffectiveBounds ==
    ASSUME NEW c, c.base \in Nat, c.min \in Nat, c.ref \in Nat, c.min <= c.base,
           NEW remaining \in Number \union {NULL}
    PROVE  /\ Effective(c, remaining) \in Int
           /\ c.min * c.ref <= Effective(c, remaining)
           /\ Effective(c, remaining) <= c.base * c.ref
<1>1. CASE ~c.adapt \/ remaining = NULL
    <2>1. Effective(c, remaining) = c.base * c.ref
        BY <1>1 DEF Effective
    <2>2. c.min * c.ref <= c.base * c.ref /\ c.base * c.ref \in Int
        OBVIOUS
    <2> QED BY <2>1, <2>2
<1>2. CASE ~(~c.adapt \/ remaining = NULL)
    <2> DEFINE f == Factor(c, remaining)
    <2>1. f \in Nat /\ f <= c.ref
        BY <1>2, FactorBounds
    <2>2. Effective(c, remaining) = c.base * c.ref - (c.base - c.min) * f
        BY <1>2 DEF Effective
    <2> HIDE DEF f
    <2>3. /\ (c.base - c.min) * f <= (c.base - c.min) * c.ref
          /\ (c.base - c.min) * c.ref = c.base * c.ref - c.min * c.ref
        BY <2>1, Products
    <2>4. (c.base - c.min) * f \in Nat /\ c.base * c.ref \in Nat /\ c.min * c.ref \in Nat
          /\ (c.base - c.min) * c.ref \in Nat
        BY <2>1
    <2> QED BY <2>2, <2>3, <2>4
<1> QED BY <1>1, <1>2

\* Whatever the row of control_config holds, clamp_config makes settings of it
\* whose thresholds are in order under every forecast, so the controller cannot
\* be told both to switch on and to switch off by one reading.
THEOREM ClampedSafe ==
    ASSUME NEW raw \in RawRows
    PROVE  Safe(Clamped(raw), Number)
<1> DEFINE c == Clamped(raw)
<1>1. /\ c.mode \in ValidModes
      /\ c.base \in Nat /\ c.min \in Nat /\ c.off \in Nat /\ c.ref \in Nat \ {0}
      /\ c.run >= RunFloor
      /\ c.min <= c.base /\ (c.min > 0 => c.off < c.min)
    BY ClampedTyped
<1> HIDE DEF c
<1>2. ASSUME c.min > 0, NEW remaining \in Number \union {NULL}
      PROVE  /\ c.off * c.ref < Effective(c, remaining)
             /\ c.min * c.ref <= Effective(c, remaining)
    <2>1. Effective(c, remaining) \in Int /\ c.min * c.ref <= Effective(c, remaining)
        BY <1>1, EffectiveBounds
    <2>2. c.off * c.ref < c.min * c.ref
        BY <1>1, <1>2
    <2>3. c.off * c.ref \in Int /\ c.min * c.ref \in Int
        BY <1>1
    <2> QED BY <2>1, <2>2, <2>3
<1>3. Safe(c, Number)
    BY <1>1, <1>2 DEF Safe
<1> QED BY <1>3 DEF c

\* One reading never asks for both: a safe setting leaves no overlap of "above"
\* and "below" (decide_action).
THEOREM NeverCrossed ==
    ASSUME NEW raw \in RawRows, Clamped(raw).min > 0,
           NEW remaining \in Number \union {NULL}, NEW available \in Int
    PROVE  Classified(Clamped(raw), remaining, available) # "crossed"
<1> DEFINE c == Clamped(raw)
<1>1. c.base \in Nat /\ c.min \in Nat /\ c.off \in Nat /\ c.ref \in Nat \ {0} /\ c.min <= c.base
    BY ClampedTyped
<1>2. c.min > 0 /\ c.off * c.ref < Effective(c, remaining)
    BY ClampedSafe DEF Safe
<1> HIDE DEF c
<1>3. Effective(c, remaining) \in Int
    BY <1>1, EffectiveBounds
<1>4. Below(c, available) => ~Above(c, remaining, available)
    <2>1. SUFFICES ASSUME available < c.off PROVE ~(available * c.ref > Effective(c, remaining))
        BY DEF Below, Above
    <2>2. available * c.ref <= c.off * c.ref
        BY <1>1, <2>1
    <2>3. available * c.ref \in Int /\ c.off * c.ref \in Int
        BY <1>1
    <2> QED BY <1>2, <1>3, <2>2, <2>3
<1>5. Classified(c, remaining, available) # "crossed"
    BY <1>4 DEF Classified
<1> QED BY <1>5 DEF c

-----------------------------------------------------------------------------
(* The row, the form and what the controller runs on.                      *)

\* The row stays one the database can hold, the form one a browser can send,
\* and what the controller runs on has gone through clamp_config.
CInv ==
    /\ row \in RawRows /\ page \in Forms
    /\ \E raw \in RawRows : cfg = Clamped(raw)

\* The form shows any row that has run times.
LEMMA ShownForm ==
    ASSUME row \in RawRows, row.run # NULL
    PROVE  PageOfRow \in Forms
<1>1. /\ \A column \in {"base", "min", "off", "ref", "nominal"} : Shown(column) \in Entries
      /\ Shown("adapt") \in BOOLEAN
    BY DEF Shown, RawRows, Entries
<1>2. Shown("run") \in Entries
    <2>1. row.run \in Int /\ Minute \in Nat \ {0}
        BY ConfigRowAssumption DEF RawRows
    <2>2. row.run \div Minute \in Int
        BY <2>1
    <2> QED BY <2>1, <2>2 DEF Shown, Entries, Number
<1> QED BY <1>1, <1>2 DEF PageOfRow, Fields, Forms

\* An edit leaves a form.
LEMMA EditedForm ==
    ASSUME page \in Forms, NEW field \in DOMAIN Choices, NEW entry \in Choices[field]
    PROVE  [page EXCEPT ![field] = entry] \in Forms
<1>1. field \in Fields /\ entry \in (IF field = "adapt" THEN BOOLEAN ELSE Entries)
    BY ConfigRowAssumption
<1> QED BY <1>1 DEF Fields, Forms

\* What validate_settings accepts, the row can hold.
LEMMA SavedRow ==
    ASSUME row \in RawRows, page \in Forms, Accepted(page), page.run # NaN, Saved(page)
    PROVE  row' \in RawRows
<1>1. /\ page.base # Bad /\ page.min # Bad /\ page.off # Bad
      /\ page.ref # Bad /\ page.nominal # Bad /\ page.run # Bad
    BY DEF Accepted, FieldsInBounds, InBounds
<1>2. /\ page.base \in Number /\ page.min \in Number /\ page.off \in Number
      /\ page.ref \in Number /\ page.nominal \in Number /\ page.run \in Int
      /\ page.adapt \in BOOLEAN
    BY <1>1 DEF Forms, Entries, Number
<1>3. row.mode \in ModeTexts \union {NULL}
    BY DEF RawRows
<1> QED BY <1>2, <1>3 DEF Saved, RawRows

LEMMA CInit == Init => CInv
<1>1. SUFFICES ASSUME Init PROVE CInv
    OBVIOUS
<1>2. row \in RawRows /\ row.run # NULL
    BY <1>1, ThresholdAssumption DEF Init, Number
<1>3. page \in Forms
    BY <1>1, <1>2, ShownForm DEF Init
<1>4. cfg = Clamped(Default)
    BY <1>1 DEF Init
<1> QED BY <1>2, <1>3, <1>4, ThresholdAssumption DEF CInv

LEMMA CPostSettings == CInv /\ PostSettings => CInv'
<1>1. SUFFICES ASSUME CInv, PostSettings PROVE CInv'
    OBVIOUS
<1>2. page' \in Forms
    BY <1>1 DEF CInv, PostSettings, Forms
<1>3. row' \in RawRows
    <2>1. CASE Accepted(page) /\ Saved(page)
        BY <1>1, <2>1, SavedRow DEF CInv, PostSettings
    <2>2. CASE UNCHANGED row
        BY <1>1, <2>2 DEF CInv
    <2> QED BY <1>1, <2>1, <2>2 DEF PostSettings
<1>4. cfg' = cfg
    BY <1>1 DEF PostSettings
<1> QED BY <1>1, <1>2, <1>3, <1>4 DEF CInv

LEMMA CStep == CInv /\ [Next]_vars => CInv'
<1>1. SUFFICES ASSUME CInv, [Next]_vars PROVE CInv'
    OBVIOUS
<1>2. CASE OpenPage
    <2>1. page' \in Forms
        BY <1>1, <1>2, ShownForm, ConfigRowAssumption DEF OpenPage, CInv
    <2> QED BY <1>1, <1>2, <2>1 DEF OpenPage, CInv
<1>3. CASE \E field \in DOMAIN Choices : \E entry \in Choices[field] : Edit(field, entry)
    <2>3. PICK field \in DOMAIN Choices : \E entry \in Choices[field] : Edit(field, entry)
        BY <1>3
    <2>1. PICK entry \in Choices[field] : Edit(field, entry)
        BY <2>3
    <2>2. page' \in Forms
        BY <1>1, <2>1, EditedForm DEF Edit, CInv
    <2> QED BY <1>1, <2>1, <2>2 DEF Edit, CInv
<1>4. CASE PostSettings
    BY <1>1, <1>4, CPostSettings
<1>5. CASE \E asked \in {"auto", "off"} : PostMode(asked)
    <2>3. PICK asked \in {"auto", "off"} : PostMode(asked)
        BY <1>5
    <2> DEFINE mode == IF asked \in ValidModes THEN asked ELSE "paused"
    <2>1. mode \in ModeTexts /\ row' = [row EXCEPT !.mode = mode] /\ UNCHANGED <<cfg, page>>
        <3>1. asked = "auto" \/ asked = "off"
            BY <2>3
        <3>2. mode \in ModeTexts
            BY <3>1 DEF ModeTexts, ValidModes
        <3>3. row' = [row EXCEPT !.mode = mode] /\ UNCHANGED <<cfg, page>>
            BY <2>3, Zenon DEF PostMode
        <3> QED BY <3>2, <3>3
    <2> HIDE DEF mode
    <2>2. row' \in RawRows
        BY <1>1, <2>1 DEF CInv, RawRows
    <2> QED BY <1>1, <2>1, <2>2 DEF CInv
<1>6. CASE EditRow
    BY <1>1, <1>6, ConfigRowAssumption DEF EditRow, CInv
<1>7. CASE LoadConfig
    <2>1. cfg' = Clamped(row) /\ row \in RawRows /\ UNCHANGED <<row, page>>
        BY <1>1, <1>7 DEF LoadConfig, CInv
    <2> QED BY <1>1, <2>1 DEF CInv
<1>8. CASE UNCHANGED vars
    BY <1>1, <1>8 DEF vars, CInv
<1> QED BY <1>1, <1>2, <1>3, <1>4, <1>5, <1>6, <1>7, <1>8 DEF Next

\* Nobody can write a row that makes the loaded settings unsafe.
THEOREM AlwaysSafe == Spec => []LoadedSafe
<1>1. CInv => LoadedSafe
    <2>1. SUFFICES ASSUME NEW raw \in RawRows, cfg = Clamped(raw) PROVE LoadedSafe
        BY DEF CInv
    <2>2. Safe(Clamped(raw), Number)
        BY ClampedSafe
    <2>3. cfg.ref \in Nat
        BY <2>1, ClampedTyped
    <2> QED BY <2>1, <2>2, <2>3 DEF LoadedSafe, Safe, Number
<1> QED BY <1>1, CInit, CStep, PTL DEF Spec

-----------------------------------------------------------------------------
(* What the operator saved and chose is what the controller loads.         *)

\* clamp_config leaves settings alone that are within validate_settings' bounds.
LEMMA ClampKeeps ==
    ASSUME NEW raw \in RawRows, raw.adapt \in BOOLEAN,
           raw.base \in Int, raw.min \in Int, raw.off \in Int,
           raw.ref \in Int, raw.nominal \in Int, raw.run \in Int,
           0 <= raw.off, raw.off < raw.min, raw.min <= raw.base, 1 <= raw.ref,
           0 <= raw.nominal, raw.nominal <= NominalCap, RunFloor <= raw.run
    PROVE  \A column \in Fields : Clamped(raw)[column] = raw[column]
<1>1. /\ OrDefault(raw, "base") = raw.base /\ OrDefault(raw, "min") = raw.min
      /\ OrDefault(raw, "off") = raw.off /\ OrDefault(raw, "ref") = raw.ref
      /\ OrDefault(raw, "nominal") = raw.nominal /\ OrDefault(raw, "run") = raw.run
      /\ OrDefault(raw, "adapt") = raw.adapt
    BY DEF OrDefault, Number
<1>2. \A lo, v \in Int : lo <= v => AtLeast(lo, v) = v
    BY DEF AtLeast
<1>3. \A hi, v \in Int : v <= hi => Capped(v, hi) = v
    BY DEF Capped
<1>4. /\ AtLeast(0, raw.base) = raw.base /\ AtLeast(0, Capped(raw.min, raw.base)) = raw.min
      /\ AtLeast(0, raw.off) = raw.off /\ AtLeast(1, raw.ref) = raw.ref
      /\ AtLeast(0, Capped(raw.nominal, NominalCap)) = raw.nominal
      /\ AtLeast(RunFloor, raw.run) = raw.run
    BY <1>2, <1>3
<1>5. OffBelow(raw.off, raw.min) = raw.off
    BY DEF OffBelow
<1>6. Clamped(raw) =
         [mode |-> IF OrDefault(raw, "mode") \in ValidModes THEN OrDefault(raw, "mode") ELSE "paused",
          adapt |-> raw.adapt, base |-> raw.base, min |-> raw.min, off |-> raw.off,
          ref |-> raw.ref, nominal |-> raw.nominal, run |-> raw.run]
    BY <1>1, <1>4, <1>5, Zenon DEF Clamped
<1> QED BY <1>6 DEF Fields

\* The row holds what was saved and chosen until somebody else writes it.
Intact ==
    /\ saved \in Forms /\ Accepted(saved) /\ saved.run # NaN
    /\ \A column \in Fields : row[column] = saved[column]

OInv ==
    /\ touched \subseteq Fields
    /\ saved # NULL => Intact
    /\ chosen # NULL => chosen \in ValidModes /\ row.mode = chosen

LEMMA OPostSettings == CInv /\ OInv /\ PostSettings => OInv'
<1> SUFFICES ASSUME CInv, OInv, PostSettings PROVE OInv'
    OBVIOUS
<1>1. chosen' = chosen
    BY DEF PostSettings
<1>2. CASE Accepted(page) /\ Saved(page) /\ saved' = page /\ touched' = {}
    <2>1. row'.mode = row.mode /\ \A column \in Fields : row'[column] = page[column]
        BY <1>2 DEF Saved, Fields
    <2>2. page.run # NaN
        BY <1>2 DEF PostSettings
    <2>3. Intact'
        BY <1>2, <2>1, <2>2 DEF CInv, Intact, Accepted, FieldsInBounds, InBounds, Exceeds
    <2> QED BY <1>1, <1>2, <2>1, <2>3 DEF OInv
<1>3. CASE UNCHANGED <<row, saved, touched>>
    BY <1>1, <1>3 DEF OInv, Intact, Accepted, FieldsInBounds, InBounds, Exceeds
<1> QED BY <1>2, <1>3 DEF PostSettings

LEMMA OStep == CInv /\ OInv /\ [Next]_vars => OInv'
<1> SUFFICES ASSUME CInv, OInv, [Next]_vars PROVE OInv'
    OBVIOUS
<1>1. CASE OpenPage \/ LoadConfig
    BY <1>1 DEF OpenPage, LoadConfig, OInv, Intact, Accepted, FieldsInBounds, InBounds, Exceeds
<1>2. CASE \E field \in DOMAIN Choices : \E entry \in Choices[field] : Edit(field, entry)
    <2>1. touched' \subseteq Fields /\ UNCHANGED <<row, saved, chosen>>
        BY <1>2, ConfigRowAssumption DEF Edit, OInv
    <2> QED BY <2>1 DEF OInv, Intact, Accepted, FieldsInBounds, InBounds, Exceeds
<1>3. CASE PostSettings
    BY <1>3, OPostSettings
<1>4. CASE \E asked \in {"auto", "off"} : PostMode(asked)
    <2>1. PICK asked \in {"auto", "off"} : PostMode(asked)
        BY <1>4
    <2> DEFINE mode == IF asked \in ValidModes THEN asked ELSE "paused"
    <2>2. row' = [row EXCEPT !.mode = mode] /\ chosen' = mode /\ UNCHANGED <<touched, saved>>
        BY <2>1, Zenon DEF PostMode
    <2>3. mode \in ValidModes
        BY DEF ValidModes
    <2> HIDE DEF mode
    <2>4. row'.mode = mode /\ \A column \in Fields : row'[column] = row[column]
        BY <2>2 DEF CInv, RawRows, Fields
    <2>5. saved' # NULL => Intact'
        BY <2>2, <2>4 DEF OInv, Intact, Accepted, FieldsInBounds, InBounds, Exceeds
    <2> QED BY <2>2, <2>3, <2>4, <2>5 DEF OInv
<1>5. CASE EditRow
    BY <1>5 DEF EditRow, OInv
<1>6. CASE UNCHANGED vars
    BY <1>6 DEF vars, OInv, Intact, Accepted, FieldsInBounds, InBounds, Exceeds
<1> QED BY <1>1, <1>2, <1>3, <1>4, <1>5, <1>6 DEF Next

LEMMA OInit == Init => OInv
BY DEF Init, OInv

\* Row, form and settings keep their types, whoever writes and whatever is typed.
THEOREM ConfigTypeCorrect == Spec => []TypeOK
<1>1. CInv /\ OInv => TypeOK
    <2>1. SUFFICES ASSUME CInv, OInv PROVE TypeOK
        OBVIOUS
    <2>2. PICK raw \in RawRows : cfg = Clamped(raw)
        BY <2>1 DEF CInv
    <2>3. cfg \in RawRows
        <3>1. /\ cfg.mode \in ValidModes /\ cfg.adapt \in BOOLEAN
              /\ cfg.base \in Nat /\ cfg.min \in Nat /\ cfg.off \in Nat /\ cfg.ref \in Nat
              /\ cfg.nominal \in 0..NominalCap /\ cfg.run \in Nat
            BY <2>2, ClampedTyped
        <3>2. cfg = [mode |-> cfg.mode, adapt |-> cfg.adapt, base |-> cfg.base, min |-> cfg.min,
                     off |-> cfg.off, ref |-> cfg.ref, nominal |-> cfg.nominal, run |-> cfg.run]
            BY <2>2 DEF Clamped
        <3> QED BY <3>1, <3>2 DEF RawRows, Number, ModeTexts
    <2>4. saved \in Forms \union {NULL} /\ chosen \in ValidModes \union {NULL}
        BY <2>1 DEF OInv, Intact
    <2> QED BY <2>1, <2>3, <2>4 DEF CInv, OInv, TypeOK
<1> QED BY <1>1, CInit, CStep, OInit, OStep, PTL DEF Spec

\* The controller runs on what the operator saved and chose, for any bounds of the
\* form that clamp_config mirrors (validate_settings, clamp_config).
THEOREM OperatorIsObeyed == Spec => OperatorObeyed
<1> DEFINE Numbers == {saved[column] : column \in Fields \ {"adapt"}}
           Obeyed == /\ saved # NULL /\ NaN \notin Numbers
                          => \A column \in Fields : cfg'[column] = saved[column]
                     /\ chosen # NULL => cfg'.mode = chosen
<1>1. CInv /\ OInv /\ LoadConfig => Obeyed
    <2>1. SUFFICES ASSUME CInv, OInv, LoadConfig PROVE Obeyed
        OBVIOUS
    <2>2. cfg' = Clamped(row) /\ row \in RawRows
        BY <2>1 DEF LoadConfig, CInv
    <2>3. ASSUME saved # NULL, NaN \notin Numbers
          PROVE  \A column \in Fields : cfg'[column] = saved[column]
        <3>1. Intact
            BY <2>1, <2>3 DEF OInv
        <3>2. /\ saved.base # NaN /\ saved.min # NaN /\ saved.off # NaN
              /\ saved.ref # NaN /\ saved.nominal # NaN /\ saved.run # NaN
            BY <2>3 DEF Fields
        <3> HIDE DEF Numbers
        <3>3. /\ InBounds(saved.base, 0, WattsCap) /\ InBounds(saved.min, 0, WattsCap)
              /\ InBounds(saved.off, 0, WattsCap) /\ InBounds(saved.ref, 1, RefCap)
              /\ InBounds(saved.nominal, 0, NominalCap) /\ InBounds(saved.run, RunFloor, RunCap)
              /\ ~Exceeds(saved.min, saved.base)
              /\ Exceeds(saved.min, saved.off) \/ NaN \in {saved.min, saved.off}
            BY <3>1 DEF Intact, Accepted, FieldsInBounds
        <3>4. /\ saved.base \in Int /\ saved.min \in Int /\ saved.off \in Int
              /\ saved.ref \in Int /\ saved.nominal \in Int /\ saved.run \in Int
              /\ saved.adapt \in BOOLEAN
            BY <3>1, <3>2, <3>3 DEF Intact, Forms, Entries, Number, InBounds
        <3>5. /\ 0 <= saved.off /\ saved.off < saved.min /\ saved.min <= saved.base
              /\ 1 <= saved.ref /\ 0 <= saved.nominal /\ saved.nominal <= NominalCap
              /\ RunFloor <= saved.run
            BY <3>2, <3>3, <3>4 DEF InBounds, Exceeds
        <3>6. /\ row.base = saved.base /\ row.min = saved.min /\ row.off = saved.off
              /\ row.ref = saved.ref /\ row.nominal = saved.nominal /\ row.run = saved.run
              /\ row.adapt = saved.adapt
            BY <3>1 DEF Intact, Fields
        <3>7. \A column \in Fields : Clamped(row)[column] = row[column]
            BY <2>2, <3>4, <3>5, <3>6, ClampKeeps
        <3> QED BY <2>2, <3>1, <3>7 DEF Intact
    <2>4. ASSUME chosen # NULL PROVE cfg'.mode = chosen
        <3>1. row.mode = chosen /\ chosen \in ValidModes
            BY <2>1, <2>4 DEF OInv
        <3>2. OrDefault(row, "mode") = chosen
            BY <2>4, <3>1 DEF OrDefault
        <3>3. Clamped(row).mode = IF OrDefault(row, "mode") \in ValidModes
                                  THEN OrDefault(row, "mode") ELSE "paused"
            BY DEF Clamped
        <3> QED BY <2>2, <3>1, <3>2, <3>3
    <2> QED BY <2>3, <2>4
<1>2. CInv /\ OInv /\ [Next]_vars => [LoadConfig => Obeyed]_vars
    BY <1>1
<1> QED BY <1>2, CInit, CStep, OInit, OStep, PTL DEF Spec, OperatorObeyed

=============================================================================
