------------------------ MODULE ContextRegistryProofs ------------------------
(***************************************************************************)
(* Proofs about ContextRegistry, for every set of types, names, values and   *)
(* relationships and every admissible initial database.                    *)
(*                                                                         *)
(* Everything is argued about the sets of active rows: Taught and Forgotten  *)
(* say what the two ways of writing a table do to its set.                  *)
(***************************************************************************)
EXTENDS ContextRegistry, TLAPS

\* Inserting or reactivating rows E adds exactly them to the active rows.
LEMMA Taught ==
  ASSUME NEW table, NEW K, IsTable(table, K), NEW E \in SUBSET K
  PROVE  /\ IsTable(Activated(table, E), K)
         /\ Active(Activated(table, E)) = Active(table) \cup E
  BY DEF IsTable, Activated, Active

\* Deprecating rows E takes exactly them from the active rows.
LEMMA Forgotten ==
  ASSUME NEW table, NEW K, IsTable(table, K), NEW E
  PROVE  /\ IsTable(Deprecated(table, E), K)
         /\ Active(Deprecated(table, E)) = Active(table) \ E
  BY DEF IsTable, Deprecated, Active

\* What create_or_get_entity makes of an EntityInput: one entity of that name,
\* which was active before or replaces none.
LEMMA RowOfInput ==
  ASSUME TypeOK, NEW type \in Types, NEW name \in Names, Usable(name),
         NEW e \in EntityRow(type, name)
  PROVE  /\ e \in Entities
         /\ e[2] = name
         /\ e \in Active(entities) \/ Named(name) = {}
<1>1. name \in References
  BY DEF Usable, Names
<1>2. CASE Named(name) # {}
  BY <1>2 DEF EntityRow, Named, Active, TypeOK, IsTable
<1>3. CASE Named(name) = {}
  BY <1>1, <1>3 DEF EntityRow, Entities
<1> QED BY <1>2, <1>3

\* An input that is not refused finds every active entity of its name.
LEMMA OnlyRow ==
  ASSUME NEW type, NEW name, Usable(name), NEW e \in EntityRow(type, name)
  PROVE  Named(name) \subseteq {e}
BY DEF Usable, Several, EntityRow

\* After the row of an input is stored, its name is borne by it alone, if no
\* other entity stored with it has the name.
LEMMA NamedAfter ==
  ASSUME TypeOK, NEW type \in Types, NEW name \in Names, Usable(name),
         NEW e \in EntityRow(type, name), NEW E, e \in E,
         Active(entities') = Active(entities) \cup E,
         \A f \in E : f[2] = name => f = e
  PROVE  Named(name)' = {e}
<1>1. e[2] = name
  BY RowOfInput
<1>2. Named(name) \subseteq {e}
  BY OnlyRow
<1>3. Named(name)' = {f \in Active(entities) \cup E : f[2] = name}
  BY DEF Named
<1> QED BY <1>1, <1>2, <1>3 DEF Named

-----------------------------------------------------------------------------
(* The effect of a step on the active rows.                                *)

\* Entities E became active: each was, or no active entity had its name.
Appear(E) ==
  /\ E \in SUBSET Entities
  /\ IsTable(entities', Entities)
  /\ Active(entities') = Active(entities) \cup E
  /\ \A e \in E : e \in Active(entities) \/ Named(e[2]) = {}
  /\ \A e, f \in E : e[2] = f[2] => e = f

\* At most an alias that no other active entity has was added.
AliasesStayApart ==
  \/ Active(aliases') \subseteq Active(aliases)
  \/ \E e \in Entities, name \in References :
       /\ Active(aliases') = Active(aliases) \cup {<<e, name>>}
       /\ AliasHolders(name) \subseteq {e}

\* What every step leaves behind.
Effect ==
  /\ TypeOK'
  /\ \E E \in SUBSET Entities : Appear(E)
  /\ AliasesStayApart
  /\ RecordsAreReachable'
  /\ LastCallStands'
  /\ ForgetsAtMostOneStep

\* Where every active row stays active, nothing was forgotten.
LEMMA NothingGone ==
  ASSUME Active(entities) \subseteq Active(entities'),
         Active(aliases) \subseteq Active(aliases'),
         Active(facts) \subseteq Active(facts'),
         Active(links) \subseteq Active(links')
  PROVE  ForgetsAtMostOneStep
BY DEF ForgetsAtMostOneStep, Gone

\* What a call may be answered with when it has changed nothing.
Refusals == {"invalid", "ambiguous", "conflict", "not_found"}

\* A refused call changes no table.
LEMMA RefusedEffect ==
  ASSUME Inductive, NEW status \in Refusals, Refuse(status)
  PROVE  Effect
<1>1. /\ UNCHANGED <<entities, aliases, facts, links>>
      /\ reply'.status = status /\ reply'.call = None
  BY DEF Refuse, Return, tables
<1>2. TypeOK'
  BY <1>1 DEF Inductive, TypeOK, Refusals, Statuses
<1>3. Appear({})
  BY <1>1 DEF Appear, Inductive, TypeOK
<1>4. AliasesStayApart
  BY <1>1 DEF AliasesStayApart
<1>5. RecordsAreReachable'
  BY <1>1 DEF Inductive, RecordsAreReachable
<1>6. LastCallStands'
  BY <1>1 DEF LastCallStands, Refusals
<1>7. ForgetsAtMostOneStep
  BY <1>1, NothingGone
<1> QED BY <1>2, <1>3, <1>4, <1>5, <1>6, <1>7 DEF Effect

\* A call whose entity is refused changes no table.
LEMMA EntityRefusedEffect ==
  ASSUME Inductive, NEW name, EntityRefused(name)
  PROVE  Effect
<1>1. \/ Refuse("invalid") \/ Refuse("ambiguous")
  BY DEF EntityRefused
<1>2. {"invalid", "ambiguous"} \subseteq Refusals
  BY DEF Refusals
<1> QED BY <1>1, <1>2, RefusedEffect

\* Storing one entity.
LEMMA OneAppears ==
  ASSUME Inductive, NEW type \in Types, NEW name \in Names, Usable(name),
         NEW e \in EntityRow(type, name), Activate({e})
  PROVE  e \in Entities /\ Appear({e}) /\ Active(entities') = Active(entities) \cup {e}
<1>1. /\ e \in Entities /\ e[2] = name
      /\ e \in Active(entities) \/ Named(name) = {}
  BY RowOfInput DEF Inductive
<1>2. IsTable(entities, Entities)
  BY DEF Inductive, TypeOK
<1>3. /\ IsTable(entities', Entities)
      /\ Active(entities') = Active(entities) \cup {e}
  BY <1>1, <1>2, Taught DEF Activate
<1> QED BY <1>1, <1>3 DEF Appear

\* What was reachable stays reachable when entities only appear, and what is
\* new has to hang on active entities.
LEMMA StillReachable ==
  ASSUME RecordsAreReachable, Active(entities) \subseteq Active(entities'),
         \A k \in Active(aliases') : k \in Active(aliases) \/ k[1] \in Active(entities'),
         \A k \in Active(facts') : k \in Active(facts) \/ k[1] \in Active(entities'),
         \A k \in Active(links') :
           k \in Active(links) \/ (k[1] \in Active(entities') /\ k[3] \in Active(entities'))
  PROVE  RecordsAreReachable'
  BY DEF RecordsAreReachable

-----------------------------------------------------------------------------
(* One lemma per operation.                                                *)

\* create_entity, refused or not, does no more than Effect allows.
LEMMA CreateEntityEffect ==
  ASSUME Inductive, NEW type \in Types, NEW name \in Names, CreateEntity(type, name)
  PROVE  Effect
<1>1. CASE EntityRefused(name)
  BY <1>1, EntityRefusedEffect
<1>2. ASSUME Usable(name), NEW e \in EntityRow(type, name), Activate({e}),
             reply'.status \in {"created", "unchanged"},
             reply'.call = <<"create_entity", type, name>>,
             UNCHANGED <<aliases, facts, links>>
      PROVE  Effect
  <2>1. /\ e \in Entities /\ Appear({e})
        /\ Active(entities') = Active(entities) \cup {e}
    BY <1>2, OneAppears
  <2>2. TypeOK'
    BY <1>2, <2>1 DEF Inductive, TypeOK, Appear, Statuses
  <2>3. AliasesStayApart
    BY <1>2 DEF AliasesStayApart
  <2>4. RecordsAreReachable'
    BY <1>2, <2>1, StillReachable DEF Inductive
  <2>5. LastCallStands'
    <3>1. Named(name)' = {e}
      BY <1>2, <2>1, NamedAfter DEF Inductive
    <3>2. TaughtStands(e, reply.call)'
      BY <1>2, <3>1 DEF TaughtStands
    <3> QED BY <1>2, <2>1, <3>2 DEF LastCallStands, Usable
  <2>6. ForgetsAtMostOneStep
    BY <1>2, <2>1, NothingGone
  <2> QED BY <2>1, <2>2, <2>3, <2>4, <2>5, <2>6 DEF Effect
<1>3. CASE /\ Usable(name)
           /\ \E e \in EntityRow(type, name) :
                /\ Activate({e})
                /\ Return(IF e \in DOMAIN entities THEN "unchanged" ELSE "created",
                          <<"create_entity", type, name>>)
           /\ UNCHANGED <<aliases, facts, links>>
  <2>1. /\ reply'.status \in {"created", "unchanged"}
        /\ reply'.call = <<"create_entity", type, name>>
    BY <1>3 DEF Return
  <2> QED BY <1>2, <1>3, <2>1
<1> QED BY <1>1, <1>3 DEF CreateEntity

\* add_alias, refused at any point, does no more than Effect allows.
LEMMA AddAliasEffect ==
  ASSUME Inductive, NEW type \in Types, NEW name \in Names, NEW alias \in Names,
         AddAlias(type, name, alias)
  PROVE  Effect
<1>1. CASE EntityRefused(name)
  BY <1>1, EntityRefusedEffect
<1>2. CASE Refuse("invalid") \/ Refuse("conflict")
  BY <1>2, RefusedEffect DEF Refusals
<1>3. ASSUME Usable(name), alias # Blank, NEW e \in EntityRow(type, name),
             Unclaimed(e, alias), Activate({e}),
             aliases' = Activated(aliases, {<<e, alias>>}),
             reply'.status \in {"created", "unchanged"},
             reply'.call = <<"add_alias", type, name, alias>>,
             UNCHANGED <<facts, links>>
      PROVE  Effect
  <2>1. /\ e \in Entities /\ Appear({e})
        /\ Active(entities') = Active(entities) \cup {e}
    BY <1>3, OneAppears
  <2>2. alias \in References /\ <<e, alias>> \in AliasKeys
    BY <1>3, <2>1 DEF Names, AliasKeys
  <2>3. /\ IsTable(aliases', AliasKeys)
        /\ Active(aliases') = Active(aliases) \cup {<<e, alias>>}
    <3>1. IsTable(aliases, AliasKeys) /\ {<<e, alias>>} \in SUBSET AliasKeys
      BY <2>2 DEF Inductive, TypeOK
    <3> QED BY <1>3, <3>1, Taught
  <2>4. TypeOK'
    BY <1>3, <2>1, <2>3 DEF Inductive, TypeOK, Appear, Statuses
  <2>5. AliasesStayApart
    BY <1>3, <2>1, <2>2, <2>3 DEF AliasesStayApart, Unclaimed
  <2>6. RecordsAreReachable'
    <3>1. /\ Active(entities) \subseteq Active(entities')
          /\ Active(facts') = Active(facts) /\ Active(links') = Active(links)
      BY <1>3, <2>1
    <3>2. \A k \in Active(aliases') : k \in Active(aliases) \/ k[1] \in Active(entities')
      BY <2>1, <2>3
    <3> QED BY <3>1, <3>2, StillReachable DEF Inductive
  <2>7. LastCallStands'
    <3>1. Named(name)' = {e}
      BY <1>3, <2>1, NamedAfter DEF Inductive
    <3>2. TaughtStands(e, reply.call)'
      BY <1>3, <2>3, <3>1 DEF TaughtStands
    <3> QED BY <1>3, <2>1, <3>2 DEF LastCallStands, Usable
  <2>8. ForgetsAtMostOneStep
    BY <1>3, <2>1, <2>3, NothingGone
  <2> QED BY <2>1, <2>4, <2>5, <2>6, <2>7, <2>8 DEF Effect
<1>4. \A table, k : Stored(table, k) \in {"created", "unchanged"}
  BY DEF Stored
<1>5. CASE /\ Usable(name)
           /\ alias # Blank
           /\ \E e \in EntityRow(type, name) :
                \/ Refuse("conflict")
                \/ /\ Unclaimed(e, alias)
                   /\ Activate({e})
                   /\ aliases' = Activated(aliases, {<<e, alias>>})
                   /\ Return(Stored(aliases, <<e, alias>>),
                             <<"add_alias", type, name, alias>>)
                   /\ UNCHANGED <<facts, links>>
  BY <1>2, <1>3, <1>4, <1>5 DEF Return
<1> QED BY <1>1, <1>2, <1>5 DEF AddAlias

\* add_fact, with the entity it may create, does no more than Effect allows.
LEMMA AddFactEffect ==
  ASSUME Inductive, NEW type \in Types, NEW name \in Names,
         NEW predicate \in Predicates \cup {Blank}, NEW value \in Values,
         NEW replace \in BOOLEAN, AddFact(type, name, predicate, value, replace)
  PROVE  Effect
<1>1. CASE EntityRefused(name)
  BY <1>1, EntityRefusedEffect
<1>2. CASE Refuse("invalid")
  BY <1>2, RefusedEffect DEF Refusals
<1>3. ASSUME Usable(name), predicate # Blank, NEW e \in EntityRow(type, name),
             NEW out, Activate({e}),
             out = (IF replace THEN Replaced(e, predicate, value) ELSE {}),
             facts' = Activated(Deprecated(facts, out), {<<e, predicate, value>>}),
             reply'.status \in {"created", "unchanged"},
             reply'.call = <<"add_fact", type, name, predicate, value, replace>>,
             UNCHANGED <<aliases, links>>
      PROVE  Effect
  <2>1. /\ e \in Entities /\ Appear({e})
        /\ Active(entities') = Active(entities) \cup {e}
    BY <1>3, OneAppears
  <2>2. <<e, predicate, value>> \in FactKeys
    BY <1>3, <2>1 DEF FactKeys
  <2>3. /\ IsTable(facts', FactKeys)
        /\ Active(facts') = (Active(facts) \ out) \cup {<<e, predicate, value>>}
    <3>1. IsTable(facts, FactKeys) /\ {<<e, predicate, value>>} \in SUBSET FactKeys
      BY <2>2 DEF Inductive, TypeOK
    <3>2. /\ IsTable(Deprecated(facts, out), FactKeys)
          /\ Active(Deprecated(facts, out)) = Active(facts) \ out
      BY <3>1, Forgotten
    <3> QED BY <1>3, <3>1, <3>2, Taught
  <2>4. TypeOK'
    BY <1>3, <2>1, <2>3 DEF Inductive, TypeOK, Appear, Statuses
  <2>5. AliasesStayApart
    BY <1>3 DEF AliasesStayApart
  <2>6. RecordsAreReachable'
    BY <1>3, <2>1, <2>3, StillReachable DEF Inductive
  <2>7. LastCallStands'
    <3>1. Named(name)' = {e}
      BY <1>3, <2>1, NamedAfter DEF Inductive
    <3>2. <<e, predicate, value>> \in Active(facts')
      BY <2>3
    <3>3. replace => Replaced(e, predicate, value)' = {}
      <4>1. SUFFICES ASSUME replace,
                            NEW k \in Active(facts'), k[1] = e, k[2] = predicate,
                            k[3] # value
                     PROVE  FALSE
        BY DEF Replaced
      <4>2. k \in Active(facts) \ out
        BY <2>3, <4>1
      <4>3. k \in Replaced(e, predicate, value)
        BY <4>1, <4>2 DEF Replaced
      <4> QED BY <1>3, <4>1, <4>2, <4>3
    <3>4. TaughtStands(e, reply.call)'
      BY <1>3, <3>1, <3>2, <3>3 DEF TaughtStands
    <3> QED BY <1>3, <2>1, <3>4 DEF LastCallStands, Usable
  <2>8. ForgetsAtMostOneStep
    <3>1. Active(facts) \ Active(facts') \subseteq out
      BY <2>3
    <3>2. \A k \in out : k[1] = e /\ k[2] = predicate
      BY <1>3 DEF Replaced
    <3>3. /\ Gone(entities, entities') = {}
          /\ Gone(aliases, aliases') = {} /\ Gone(links, links') = {}
      BY <1>3, <2>1 DEF Gone
    <3>4. reply'.call[1] = "add_fact"
      BY <1>3
    <3> QED BY <3>1, <3>2, <3>3, <3>4 DEF ForgetsAtMostOneStep, Gone
  <2> QED BY <2>1, <2>4, <2>5, <2>6, <2>7, <2>8 DEF Effect
<1>4. \A table, k : Stored(table, k) \in {"created", "unchanged"}
  BY DEF Stored
<1>5. ASSUME NEW e \in EntityRow(type, name), NEW out,
             Usable(name), predicate # Blank, Activate({e}),
             out = (IF replace THEN Replaced(e, predicate, value) ELSE {}),
             facts' = Activated(Deprecated(facts, out), {<<e, predicate, value>>}),
             Return(Stored(Deprecated(facts, out), <<e, predicate, value>>),
                    <<"add_fact", type, name, predicate, value, replace>>),
             UNCHANGED <<aliases, links>>
      PROVE  Effect
  <2>1. /\ reply'.status \in {"created", "unchanged"}
        /\ reply'.call = <<"add_fact", type, name, predicate, value, replace>>
    BY <1>4, <1>5 DEF Return
  <2> QED BY <1>3, <1>5, <2>1
<1> QED BY <1>1, <1>2, <1>5 DEF AddFact

\* add_relationship, with its two entities, does no more than Effect allows.
LEMMA AddRelationshipEffect ==
  ASSUME Inductive, NEW type \in Types, NEW name \in Names,
         NEW link \in Links \cup {Blank}, NEW ttype \in Types, NEW tname \in Names,
         AddRelationship(type, name, link, ttype, tname)
  PROVE  Effect
<1>1. CASE EntityRefused(name) \/ EntityRefused(tname)
  BY <1>1, EntityRefusedEffect
<1>2. CASE Refuse("invalid")
  BY <1>2, RefusedEffect DEF Refusals
<1>3. ASSUME Usable(name), Usable(tname), link # Blank,
             NEW e \in EntityRow(type, name),
             NEW f \in (IF tname = name THEN {e} ELSE EntityRow(ttype, tname)),
             Activate({e, f}),
             links' = Activated(links, {<<e, link, f>>}),
             reply'.status \in {"created", "unchanged"},
             reply'.call = <<"add_relationship", type, name, link, ttype, tname>>,
             UNCHANGED <<aliases, facts>>
      PROVE  Effect
  <2>1. /\ e \in Entities /\ e[2] = name
        /\ e \in Active(entities) \/ Named(name) = {}
    BY <1>3, RowOfInput DEF Inductive
  <2>2. /\ f \in Entities /\ f[2] = tname
        /\ f \in Active(entities) \/ Named(tname) = {}
        /\ tname = name => f = e
    <3>1. CASE tname = name
      BY <1>3, <2>1, <3>1
    <3>2. CASE tname # name
      BY <1>3, <3>2, RowOfInput DEF Inductive
    <3> QED BY <3>1, <3>2
  <2>3. /\ IsTable(entities', Entities)
        /\ Active(entities') = Active(entities) \cup {e, f}
    <3>1. IsTable(entities, Entities) /\ {e, f} \in SUBSET Entities
      BY <2>1, <2>2 DEF Inductive, TypeOK
    <3> QED BY <1>3, <3>1, Taught DEF Activate
  <2>4. Appear({e, f})
    BY <2>1, <2>2, <2>3 DEF Appear
  <2>5. /\ IsTable(links', LinkKeys)
        /\ Active(links') = Active(links) \cup {<<e, link, f>>}
    <3>1. IsTable(links, LinkKeys) /\ {<<e, link, f>>} \in SUBSET LinkKeys
      BY <1>3, <2>1, <2>2 DEF Inductive, TypeOK, LinkKeys
    <3> QED BY <1>3, <3>1, Taught
  <2>6. TypeOK'
    BY <1>3, <2>3, <2>5 DEF Inductive, TypeOK, Statuses
  <2>7. AliasesStayApart
    BY <1>3 DEF AliasesStayApart
  <2>8. RecordsAreReachable'
    <3>1. Active(entities) \subseteq Active(entities')
      BY <2>3
    <3>2. Active(aliases') = Active(aliases) /\ Active(facts') = Active(facts)
      BY <1>3
    <3>3. \A k \in Active(links') :
            k \in Active(links) \/ (k[1] \in Active(entities') /\ k[3] \in Active(entities'))
      BY <2>3, <2>5
    <3> QED BY <3>1, <3>2, <3>3, StillReachable DEF Inductive
  <2>9. {e, f} \in SUBSET Entities
    BY <2>1, <2>2
  <2>10. LastCallStands'
    <3>1. Named(name)' = {e}
      BY <1>3, <2>2, <2>3, NamedAfter DEF Inductive
    <3>2. Named(tname)' = {f}
      <4>1. CASE tname = name
        BY <2>2, <3>1, <4>1
      <4>2. CASE tname # name
        BY <1>3, <2>1, <2>3, <4>2, NamedAfter DEF Inductive
      <4> QED BY <4>1, <4>2
    <3>3. /\ <<e, link, f>> \in Active(links')
          /\ f \in Entities /\ tname # Blank
      BY <1>3, <2>2, <2>5 DEF Usable
    <3>4. TaughtStands(e, reply.call)'
      BY <1>3, <3>1, <3>2, <3>3 DEF TaughtStands
    <3> QED BY <1>3, <2>1, <3>4 DEF LastCallStands, Usable
  <2>11. ForgetsAtMostOneStep
    BY <1>3, <2>3, <2>5, NothingGone
  <2> QED BY <2>4, <2>6, <2>7, <2>8, <2>9, <2>10, <2>11 DEF Effect
<1>4. \A table, k : Stored(table, k) \in {"created", "unchanged"}
  BY DEF Stored
<1>5. CASE /\ Usable(name)
           /\ Usable(tname)
           /\ link # Blank
           /\ \E e \in EntityRow(type, name) :
              \E f \in (IF tname = name THEN {e} ELSE EntityRow(ttype, tname)) :
                /\ Activate({e, f})
                /\ links' = Activated(links, {<<e, link, f>>})
                /\ Return(Stored(links, <<e, link, f>>),
                          <<"add_relationship", type, name, link, ttype, tname>>)
           /\ UNCHANGED <<aliases, facts>>
  BY <1>3, <1>4, <1>5 DEF Return
<1> QED BY <1>1, <1>2, <1>5 DEF AddRelationship

\* What the three operations that forget have in common.
LEMMA ForgetEffect ==
  ASSUME Inductive, UNCHANGED entities, reply'.status = "deprecated",
         IsTable(aliases', AliasKeys), Active(aliases') \subseteq Active(aliases),
         IsTable(facts', FactKeys), Active(facts') \subseteq Active(facts),
         IsTable(links', LinkKeys), Active(links') \subseteq Active(links),
         ForgottenStands(reply.call)',
         ~Several(Gone(aliases, aliases') \cup Gone(links, links')
                    \cup Gone(facts, facts'))
  PROVE  Effect
<1>1. Appear({})
  BY DEF Appear, Inductive, TypeOK
<1>2. TypeOK'
  BY DEF Inductive, TypeOK, Statuses
<1>3. AliasesStayApart
  BY DEF AliasesStayApart
<1>4. Active(entities') = Active(entities)
  OBVIOUS
<1>5. RecordsAreReachable'
  BY <1>4, StillReachable DEF Inductive
<1>6. LastCallStands'
  BY DEF LastCallStands
<1>7. ForgetsAtMostOneStep
  BY <1>4 DEF ForgetsAtMostOneStep, Gone
<1> QED BY <1>1, <1>2, <1>3, <1>5, <1>6, <1>7 DEF Effect

\* Forgetting an alias only takes it from the active ones.
LEMMA DeprecateAliasEffect ==
  ASSUME Inductive, NEW reference, NEW alias, DeprecateAlias(reference, alias)
  PROVE  Effect
<1>1. CASE Refuse("not_found") \/ Refuse("ambiguous")
  BY <1>1, RefusedEffect DEF Refusals
<1>2. ASSUME ~Several(Denotes(reference)), NEW e \in Denotes(reference),
             aliases' = Deprecated(aliases, {<<e, alias>>}),
             reply'.status = "deprecated",
             reply'.call = <<"deprecate_alias", reference, alias>>,
             UNCHANGED <<entities, facts, links>>
      PROVE  Effect
  <2>1. /\ IsTable(aliases, AliasKeys)
        /\ IsTable(facts', FactKeys) /\ Active(facts') = Active(facts)
        /\ IsTable(links', LinkKeys) /\ Active(links') = Active(links)
    BY <1>2 DEF Inductive, TypeOK
  <2>2. /\ IsTable(aliases', AliasKeys)
        /\ Active(aliases') = Active(aliases) \ {<<e, alias>>}
    BY <1>2, <2>1, Forgotten
  <2>3. UNCHANGED entities /\ reply'.status = "deprecated"
    BY <1>2
  <2>4. IsTable(aliases', AliasKeys) /\ Active(aliases') \subseteq Active(aliases)
    BY <2>2
  <2>5. ForgottenStands(reply.call)'
    <3>1. Active(entities') = Active(entities)
      BY <1>2
    <3>2. Denotes(reference)' \subseteq Denotes(reference)
      BY <2>4, <3>1 DEF Denotes, Named, AliasHolders
    <3>3. Denotes(reference)' \subseteq {e}
      BY <1>2, <3>2 DEF Several
    <3>4. <<e, alias>> \notin Active(aliases')
      BY <2>2
    <3> QED BY <1>2, <3>3, <3>4 DEF ForgottenStands
  <2>6. ~Several(Gone(aliases, aliases') \cup Gone(links, links')
                   \cup Gone(facts, facts'))
    BY <2>1, <2>2 DEF Several, Gone
  <2> QED BY <2>1, <2>3, <2>4, <2>5, <2>6, ForgetEffect
<1>3. \/ Refuse("not_found") \/ Refuse("ambiguous")
      \/ \E e \in Denotes(reference) :
           /\ ~Several(Denotes(reference))
           /\ aliases' = Deprecated(aliases, {<<e, alias>>})
           /\ Return("deprecated", <<"deprecate_alias", reference, alias>>)
           /\ UNCHANGED <<entities, facts, links>>
  BY Zenon DEF DeprecateAlias
<1>4. \A call : Return("deprecated", call) =>
                 reply'.status = "deprecated" /\ reply'.call = call
  BY DEF Return
<1> QED BY <1>1, <1>2, <1>3, <1>4

\* Forgetting facts only takes them from the active ones.
LEMMA DeprecateFactEffect ==
  ASSUME Inductive, NEW reference, NEW predicate, NEW text,
         DeprecateFact(reference, predicate, text)
  PROVE  Effect
<1>1. CASE Refuse("not_found") \/ Refuse("ambiguous")
  BY <1>1, RefusedEffect DEF Refusals
<1>2. ASSUME NEW matches, matches = MatchingFacts(reference, predicate, text),
             ~Several(matches), facts' = Deprecated(facts, matches),
             reply'.status = "deprecated",
             reply'.call = <<"deprecate_fact", reference, predicate, text>>,
             UNCHANGED <<entities, aliases, links>>
      PROVE  Effect
  <2>1. /\ IsTable(facts, FactKeys)
        /\ IsTable(aliases', AliasKeys) /\ Active(aliases') = Active(aliases)
        /\ IsTable(links', LinkKeys) /\ Active(links') = Active(links)
    BY <1>2 DEF Inductive, TypeOK
  <2>2. /\ IsTable(facts', FactKeys)
        /\ Active(facts') = Active(facts) \ matches
    BY <1>2, <2>1, Forgotten
  <2>3. UNCHANGED entities /\ reply'.status = "deprecated"
    BY <1>2
  <2>4. IsTable(facts', FactKeys) /\ Active(facts') \subseteq Active(facts)
    BY <2>2
  <2>5. ForgottenStands(reply.call)'
    <3>1. Denotes(reference)' = Denotes(reference)
      BY <1>2 DEF Denotes, Named, AliasHolders
    <3>2. MatchingFacts(reference, predicate, text)' = {}
      BY <1>2, <2>2, <3>1 DEF MatchingFacts
    <3> QED BY <1>2, <3>2 DEF ForgottenStands
  <2>6. ~Several(Gone(aliases, aliases') \cup Gone(links, links')
                   \cup Gone(facts, facts'))
    BY <1>2, <2>1, <2>2 DEF Several, Gone
  <2> QED BY <2>1, <2>3, <2>4, <2>5, <2>6, ForgetEffect
<1> QED BY <1>1, <1>2 DEF DeprecateFact, Return

\* Forgetting a relationship only takes it from the active ones.
LEMMA DeprecateRelationshipEffect ==
  ASSUME Inductive, NEW reference, NEW link, NEW target,
         DeprecateRelationship(reference, link, target)
  PROVE  Effect
<1>1. CASE Refuse("not_found") \/ Refuse("ambiguous")
  BY <1>1, RefusedEffect DEF Refusals
<1>2. ASSUME NEW matches, matches = MatchingLinks(reference, link, target),
             ~Several(matches), links' = Deprecated(links, matches),
             reply'.status = "deprecated",
             reply'.call = <<"deprecate_relationship", reference, link, target>>,
             UNCHANGED <<entities, aliases, facts>>
      PROVE  Effect
  <2>1. /\ IsTable(links, LinkKeys)
        /\ IsTable(aliases', AliasKeys) /\ Active(aliases') = Active(aliases)
        /\ IsTable(facts', FactKeys) /\ Active(facts') = Active(facts)
    BY <1>2 DEF Inductive, TypeOK
  <2>2. /\ IsTable(links', LinkKeys)
        /\ Active(links') = Active(links) \ matches
    BY <1>2, <2>1, Forgotten
  <2>3. UNCHANGED entities /\ reply'.status = "deprecated"
    BY <1>2
  <2>4. IsTable(links', LinkKeys) /\ Active(links') \subseteq Active(links)
    BY <2>2
  <2>5. ForgottenStands(reply.call)'
    <3>1. \A name : Denotes(name)' = Denotes(name)
      BY <1>2 DEF Denotes, Named, AliasHolders
    <3>2. MatchingLinks(reference, link, target)' = {}
      BY <1>2, <2>2, <3>1 DEF MatchingLinks
    <3> QED BY <1>2, <3>2 DEF ForgottenStands
  <2>6. ~Several(Gone(aliases, aliases') \cup Gone(links, links')
                   \cup Gone(facts, facts'))
    BY <1>2, <2>1, <2>2 DEF Several, Gone
  <2> QED BY <2>1, <2>3, <2>4, <2>5, <2>6, ForgetEffect
<1> QED BY <1>1, <1>2 DEF DeprecateRelationship, Return

\* No operation does more than Effect allows.
LEMMA NextEffect ==
  ASSUME Inductive, Next
  PROVE  Effect
<1>1. CASE Teach
  <2>1. PICK type \in Types, name \in Names :
          \/ CreateEntity(type, name)
          \/ \E alias \in Names : AddAlias(type, name, alias)
          \/ \E predicate \in Predicates \cup {Blank}, value \in Values,
                replace \in BOOLEAN : AddFact(type, name, predicate, value, replace)
          \/ \E link \in Links \cup {Blank}, ttype \in Types, tname \in Names :
               AddRelationship(type, name, link, ttype, tname)
    BY <1>1 DEF Teach
  <2> QED BY <2>1, CreateEntityEffect, AddAliasEffect, AddFactEffect,
             AddRelationshipEffect
<1>2. CASE Forget
  BY <1>2, DeprecateAliasEffect, DeprecateFactEffect,
     DeprecateRelationshipEffect DEF Forget
<1> QED BY <1>1, <1>2 DEF Next

-----------------------------------------------------------------------------

\* A stuttering step changes nothing the last answer describes.
LEMMA UnchangedStands ==
  ASSUME LastCallStands, UNCHANGED vars
  PROVE  LastCallStands'
<1>1. UNCHANGED <<entities, aliases, facts, links, reply>>
  BY DEF vars
<1>2. /\ Active(entities') = Active(entities) /\ Active(aliases') = Active(aliases)
      /\ Active(facts') = Active(facts) /\ Active(links') = Active(links)
  BY <1>1
<1>3. \A e, call : TaughtStands(e, call) => TaughtStands(e, call)'
  BY <1>1 DEF TaughtStands, Named, Replaced
<1>4. \A call : ForgottenStands(call) => ForgottenStands(call)'
  BY <1>1 DEF ForgottenStands, MatchingFacts, MatchingLinks, Denotes, Named,
     AliasHolders
<1> QED BY <1>1, <1>3, <1>4 DEF LastCallStands

\* In every reachable state the tables are well formed and every active
\* record hangs on an active entity: create_or_get_entity reactivates what
\* the following insert refers to.
THEOREM InductiveHolds == Spec => []Inductive
<1>1. Init => Inductive
  <2> SUFFICES ASSUME Init PROVE Inductive
    OBVIOUS
  <2>1. PICK d \in InitialTables : entities = d.entities /\ aliases = d.aliases
    BY DEF Init
  <2>2. /\ facts = EmptyTable
        /\ links = EmptyTable
        /\ reply = [status |-> None, call |-> None]
    BY DEF Init
  <2>3. \A K : IsTable(EmptyTable, K) /\ Active(EmptyTable) = {}
    BY DEF EmptyTable, IsTable, Active
  <2>4. TypeOK
    BY <2>1, <2>2, <2>3, InitialTablesAssumption DEF TypeOK
  <2>5. RecordsAreReachable
    BY <2>1, <2>2, <2>3, InitialTablesAssumption DEF RecordsAreReachable
  <2>6. LastCallStands
    BY <2>2, BlankAssumption DEF LastCallStands, Statuses
  <2> QED BY <2>4, <2>5, <2>6 DEF Inductive
<1>2. Inductive /\ [Next]_vars => Inductive'
  <2> SUFFICES ASSUME Inductive, [Next]_vars PROVE Inductive'
    OBVIOUS
  <2>1. CASE Next
    BY <2>1, NextEffect DEF Effect, Inductive
  <2>2. CASE UNCHANGED vars
    <3>1. TypeOK' /\ RecordsAreReachable'
      BY <2>2 DEF vars, Inductive, TypeOK, RecordsAreReachable
    <3>2. LastCallStands'
      BY <2>2, UnchangedStands DEF vars, Inductive
    <3> QED BY <3>1, <3>2 DEF Inductive
  <2> QED BY <2>1, <2>2
<1> QED BY <1>1, <1>2, PTL DEF Spec

\* A reference that denotes several entities after a step did so before.
LEMMA NoNewAmbiguity ==
  ASSUME Inductive, Effect, NEW name \in References, Ambiguous(name)'
  PROVE  Ambiguous(name)
<1>0. name # Blank
  BY BlankAssumption
<1>1. PICK x \in Denotes(name)', y \in Denotes(name)' : x # y
  BY DEF Ambiguous, Several
<1>2. PICK E \in SUBSET Entities : Appear(E)
  BY DEF Effect
<1>3. Active(entities') = Active(entities) \cup E
  BY <1>2 DEF Appear
<1>4. CASE Named(name)' # {}
  <2>1. x \in Named(name)' /\ y \in Named(name)'
    BY <1>0, <1>1, <1>4 DEF Denotes
  <2>2. /\ x \in Active(entities) \cup E /\ x[2] = name
        /\ y \in Active(entities) \cup E /\ y[2] = name
    BY <1>3, <2>1 DEF Named
  <2>3. x \in Named(name) \/ (x \in E /\ Named(name) = {})
    BY <1>2, <2>2 DEF Appear, Named
  <2>4. y \in Named(name) \/ (y \in E /\ Named(name) = {})
    BY <1>2, <2>2 DEF Appear, Named
  <2>5. ~(x \in E /\ y \in E)
    BY <1>1, <1>2, <2>2 DEF Appear
  <2>6. x \in Named(name) /\ y \in Named(name)
    BY <2>3, <2>4, <2>5
  <2> QED BY <1>0, <1>1, <2>6 DEF Ambiguous, Several, Denotes
<1>5. CASE Named(name)' = {}
  <2>1. Named(name) = {}
    BY <1>3, <1>5 DEF Named
  <2>2. x \in AliasHolders(name)' /\ y \in AliasHolders(name)'
    BY <1>0, <1>1, <1>5 DEF Denotes
  <2>3. <<x, name>> \in Active(aliases') /\ <<y, name>> \in Active(aliases')
    BY <2>2 DEF AliasHolders
  <2>4. \A z : <<z, name>> \in Active(aliases) => z \in AliasHolders(name)
    BY DEF Inductive, RecordsAreReachable, AliasHolders
  <2>5. <<x, name>> \in Active(aliases) /\ <<y, name>> \in Active(aliases)
    <3>1. CASE Active(aliases') \subseteq Active(aliases)
      BY <2>3, <3>1
    <3>2. ASSUME NEW e \in Entities, NEW alias \in References,
                 Active(aliases') = Active(aliases) \cup {<<e, alias>>},
                 AliasHolders(alias) \subseteq {e}
          PROVE  <<x, name>> \in Active(aliases) /\ <<y, name>> \in Active(aliases)
      <4>1. <<x, name>> \in Active(aliases) \/ (x = e /\ name = alias)
        BY <2>3, <3>2
      <4>2. <<y, name>> \in Active(aliases) \/ (y = e /\ name = alias)
        BY <2>3, <3>2
      <4> QED BY <1>1, <2>4, <3>2, <4>1, <4>2
    <3> QED BY <3>1, <3>2 DEF Effect, AliasesStayApart
  <2>6. x \in AliasHolders(name) /\ y \in AliasHolders(name)
    BY <2>4, <2>5
  <2> QED BY <1>0, <1>1, <2>1, <2>6 DEF Ambiguous, Several, Denotes
<1> QED BY <1>4, <1>5

\* For every database the registry may start from, no sequence of calls makes
\* a reference ambiguous that was not.
THEOREM AmbiguityNeverGrowsHolds == Spec => AmbiguityNeverGrows
<1>1. Inductive /\ [Next]_vars =>
        [\A name \in References : Ambiguous(name)' => Ambiguous(name)]_vars
  <2> SUFFICES ASSUME Inductive, Next, NEW name \in References, Ambiguous(name)'
               PROVE  Ambiguous(name)
    OBVIOUS
  <2>1. Effect
    BY NextEffect
  <2> QED BY <2>1, NoNewAmbiguity
<1> QED BY <1>1, InductiveHolds, PTL DEF Spec, AmbiguityNeverGrows


-----------------------------------------------------------------------------
(* What the last answer promises.                                          *)

\* A name that is borne by one active entity denotes it, whatever aliases
\* there are.
LEMMA NamedIsDenoted ==
  ASSUME NEW name, name # Blank, NEW e, Named(name) = {e}
  PROVE  Denotes(name) = {e}
BY DEF Denotes

\* What was just taught is found: the name denotes the one entity the record
\* went to, the record is there, and a correction left no other value.
THEOREM TaughtIsFoundHolds == Spec => []TaughtIsFound
<1>1. Inductive => TaughtIsFound
  <2> SUFFICES ASSUME Inductive, reply.status \in {"created", "unchanged"}
               PROVE  TaughtIsFound
    BY DEF TaughtIsFound
  <2>1. PICK call : call = reply.call
    OBVIOUS
  <2>2. call[3] # Blank
    BY <2>1 DEF Inductive, LastCallStands
  <2>3. PICK e \in Entities : TaughtStands(e, call)
    BY <2>1 DEF Inductive, LastCallStands
  <2>4. Denotes(call[3]) = {e}
    BY <2>2, <2>3, NamedIsDenoted DEF TaughtStands
  <2>5. CASE call[1] = "create_entity"
    BY <2>1, <2>4, <2>5 DEF TaughtIsFound
  <2>6. CASE call[1] = "add_alias"
    BY <2>1, <2>3, <2>4, <2>6 DEF TaughtIsFound, TaughtStands
  <2>7. CASE call[1] = "add_fact"
    <3>1. <<e, call[4], call[5]>> \in Active(facts)
      BY <2>3, <2>7 DEF TaughtStands
    <3>2. ASSUME call[6], NEW v \in Values \ {call[5]}
          PROVE  <<e, call[4], v>> \notin Active(facts)
      BY <2>3, <2>7, <3>2 DEF TaughtStands, Replaced
    <3> QED BY <2>1, <2>4, <2>7, <3>1, <3>2 DEF TaughtIsFound
  <2>8. CASE call[1] = "add_relationship"
    <3>1. PICK f \in Entities : Named(call[6]) = {f} /\ <<e, call[4], f>> \in Active(links)
      BY <2>3, <2>8 DEF TaughtStands
    <3>2. Denotes(call[6]) = {f}
      BY <2>3, <2>8, <3>1, NamedIsDenoted DEF TaughtStands
    <3> QED BY <2>1, <2>4, <2>8, <3>1, <3>2 DEF TaughtIsFound
  <2> QED BY <2>3, <2>5, <2>6, <2>7, <2>8 DEF TaughtStands
<1> QED BY <1>1, InductiveHolds, PTL

\* A call forgets at most one record and only if it was asked to, but for a
\* correction, which takes the other values of its predicate only.
THEOREM ForgetsAtMostOneHolds == Spec => ForgetsAtMostOne
<1>1. Inductive /\ [Next]_vars => [ForgetsAtMostOneStep]_vars
  BY NextEffect DEF Effect
<1> QED BY <1>1, InductiveHolds, PTL DEF Spec, ForgetsAtMostOne

-----------------------------------------------------------------------------
(* Repeating a call.                                                       *)

\* Writing rows that are active already is no change.
LEMMA AlreadyActive ==
  ASSUME NEW table, NEW K, IsTable(table, K), NEW E \in SUBSET Active(table)
  PROVE  Activated(table, E) = table
<1>1. /\ DOMAIN table \cup E = DOMAIN table
      /\ table = [k \in DOMAIN table |-> table[k]]
      /\ \A k \in DOMAIN table : table[k] \in BOOLEAN
  BY DEF IsTable, Active
<1>2. \A k \in DOMAIN table : (k \in E \/ table[k]) = table[k]
  BY <1>1 DEF Active
<1> QED BY <1>1, <1>2 DEF Activated

\* Deprecating nothing is no change.
LEMMA NothingDeprecated ==
  ASSUME NEW table, NEW K, IsTable(table, K)
  PROVE  Deprecated(table, {}) = table
<1>1. /\ table = [k \in DOMAIN table |-> table[k]]
      /\ \A k \in DOMAIN table : table[k] \in BOOLEAN
  BY DEF IsTable
<1> QED BY <1>1 DEF Deprecated

\* A name that was just taught has the one row it went to, and storing it
\* again changes nothing.
LEMMA KnownEntity ==
  ASSUME Inductive, NEW type, NEW name, NEW f, Named(name) = {f},
         NEW e \in EntityRow(type, name)
  PROVE  e = f /\ e \in Active(entities) /\ Activated(entities, {e}) = entities
<1>1. e = f /\ e \in Active(entities)
  BY DEF EntityRow, Named
<1>2. IsTable(entities, Entities)
  BY DEF Inductive, TypeOK
<1> QED BY <1>1, <1>2, AlreadyActive

\* The last call was carried out, and what it taught or forgot stands.
LEMMA CarriedOut ==
  ASSUME Inductive, reply.call # None
  PROVE  \/ \E e \in Entities : TaughtStands(e, reply.call)
         \/ ForgottenStands(reply.call)
BY DEF Inductive, LastCallStands

\* A repeated call.
Repeated == reply.call # None /\ reply'.call = reply.call

\* What a call of a given kind left behind, if it is the last that was
\* carried out.
LEMMA TaughtBefore ==
  ASSUME Inductive, Repeated,
         reply'.call[1] \in {"create_entity", "add_alias", "add_fact", "add_relationship"}
  PROVE  \E e \in Entities : TaughtStands(e, reply'.call)
<1>1. ~ForgottenStands(reply.call)
  BY DEF Repeated, ForgottenStands
<1> QED BY <1>1, CarriedOut DEF Repeated

\* The same for the calls that forget.
LEMMA ForgottenBefore ==
  ASSUME Inductive, Repeated,
         reply'.call[1] \in {"deprecate_alias", "deprecate_fact", "deprecate_relationship"}
  PROVE  ForgottenStands(reply'.call)
<1>1. \A e : ~TaughtStands(e, reply.call)
  BY DEF Repeated, TaughtStands
<1> QED BY <1>1, CarriedOut DEF Repeated

\* A repeated call was carried out: it is not a refusal.
LEMMA RepeatedIsNotRefused ==
  ASSUME Repeated
  PROVE  /\ ~Refuse("invalid") /\ ~Refuse("ambiguous")
         /\ ~Refuse("conflict") /\ ~Refuse("not_found")
BY DEF Repeated, Refuse, Return

\* create_entity of an entity it has just stored.
LEMMA CreateEntityAgain ==
  ASSUME Inductive, Repeated, NEW type, NEW name, CreateEntity(type, name)
  PROVE  UNCHANGED tables
<1>1. PICK e \in EntityRow(type, name) :
        /\ Activate({e})
        /\ Return(IF e \in DOMAIN entities THEN "unchanged" ELSE "created",
                  <<"create_entity", type, name>>)
        /\ UNCHANGED <<aliases, facts, links>>
  BY RepeatedIsNotRefused, Zenon DEF CreateEntity, EntityRefused
<1>2. reply'.call = <<"create_entity", type, name>>
  BY <1>1 DEF Return
<1>3. PICK f \in Entities : TaughtStands(f, reply'.call)
  BY <1>2, TaughtBefore
<1>4. Named(name) = {f}
  BY <1>2, <1>3 DEF TaughtStands
<1>5. entities' = entities
  BY <1>1, <1>4, KnownEntity DEF Activate
<1> QED BY <1>1, <1>5 DEF tables

\* add_alias of an alias that is active.
LEMMA AddAliasAgain ==
  ASSUME Inductive, Repeated, NEW type, NEW name, NEW alias,
         AddAlias(type, name, alias)
  PROVE  UNCHANGED tables
<1>1. PICK e \in EntityRow(type, name) :
        /\ Activate({e})
        /\ aliases' = Activated(aliases, {<<e, alias>>})
        /\ Return(Stored(aliases, <<e, alias>>), <<"add_alias", type, name, alias>>)
        /\ UNCHANGED <<facts, links>>
  BY RepeatedIsNotRefused, Zenon DEF AddAlias, EntityRefused
<1>2. reply'.call = <<"add_alias", type, name, alias>>
  BY <1>1 DEF Return
<1>3. PICK f \in Entities : TaughtStands(f, reply'.call)
  BY <1>2, TaughtBefore
<1>4. Named(name) = {f} /\ <<f, alias>> \in Active(aliases)
  BY <1>2, <1>3 DEF TaughtStands
<1>5. e = f /\ Activated(entities, {e}) = entities
  BY <1>4, KnownEntity
<1>6. entities' = entities
  BY <1>1, <1>5 DEF Activate
<1>7. aliases' = aliases
  <2>1. IsTable(aliases, AliasKeys) /\ {<<e, alias>>} \in SUBSET Active(aliases)
    BY <1>4, <1>5 DEF Inductive, TypeOK
  <2> QED BY <1>1, <2>1, AlreadyActive
<1> QED BY <1>1, <1>6, <1>7 DEF tables

\* add_fact of a value that is active: a correction finds nothing to replace.
LEMMA AddFactAgain ==
  ASSUME Inductive, Repeated, NEW type, NEW name, NEW predicate, NEW value,
         NEW replace \in BOOLEAN, AddFact(type, name, predicate, value, replace)
  PROVE  UNCHANGED tables
<1> DEFINE Out(e) == IF replace THEN Replaced(e, predicate, value) ELSE {}
           Row(e) == <<e, predicate, value>>
<1>1. PICK e \in EntityRow(type, name) :
        /\ Activate({e})
        /\ facts' = Activated(Deprecated(facts, Out(e)), {Row(e)})
        /\ Return(Stored(Deprecated(facts, Out(e)), Row(e)),
                  <<"add_fact", type, name, predicate, value, replace>>)
        /\ UNCHANGED <<aliases, links>>
  BY RepeatedIsNotRefused, Zenon DEF AddFact, EntityRefused
<1>2. reply'.call = <<"add_fact", type, name, predicate, value, replace>>
  BY <1>1 DEF Return
<1>3. PICK f \in Entities : TaughtStands(f, reply'.call)
  BY <1>2, TaughtBefore
<1>4. /\ Named(name) = {f} /\ Row(f) \in Active(facts)
      /\ replace => Replaced(f, predicate, value) = {}
  BY <1>2, <1>3 DEF TaughtStands
<1>5. e = f /\ Activated(entities, {e}) = entities
  BY <1>4, KnownEntity
<1>6. entities' = entities
  BY <1>1, <1>5 DEF Activate
<1>7. facts' = facts
  <2>1. IsTable(facts, FactKeys) /\ {Row(e)} \in SUBSET Active(facts)
    BY <1>4, <1>5 DEF Inductive, TypeOK
  <2>2. Out(e) = {}
    BY <1>4, <1>5
  <2>3. facts' = Activated(Deprecated(facts, {}), {Row(e)})
    BY <1>1, <2>2
  <2>4. Deprecated(facts, {}) = facts
    BY <2>1, NothingDeprecated
  <2> QED BY <2>1, <2>3, <2>4, AlreadyActive
<1> QED BY <1>1, <1>6, <1>7 DEF tables

\* add_relationship between two entities that are related already.
LEMMA AddRelationshipAgain ==
  ASSUME Inductive, Repeated, NEW type, NEW name, NEW link, NEW ttype, NEW tname,
         AddRelationship(type, name, link, ttype, tname)
  PROVE  UNCHANGED tables
<1>0. PICK e \in EntityRow(type, name) :
      \E f \in (IF tname = name THEN {e} ELSE EntityRow(ttype, tname)) :
        /\ Activate({e, f})
        /\ links' = Activated(links, {<<e, link, f>>})
        /\ Return(Stored(links, <<e, link, f>>),
                  <<"add_relationship", type, name, link, ttype, tname>>)
        /\ UNCHANGED <<aliases, facts>>
  BY RepeatedIsNotRefused, Zenon DEF AddRelationship, EntityRefused
<1>1. PICK f \in (IF tname = name THEN {e} ELSE EntityRow(ttype, tname)) :
        /\ Activate({e, f})
        /\ links' = Activated(links, {<<e, link, f>>})
        /\ Return(Stored(links, <<e, link, f>>),
                  <<"add_relationship", type, name, link, ttype, tname>>)
        /\ UNCHANGED <<aliases, facts>>
  BY <1>0
<1>2. reply'.call = <<"add_relationship", type, name, link, ttype, tname>>
  BY <1>1 DEF Return
<1>3. PICK g \in Entities : TaughtStands(g, reply'.call)
  BY <1>2, TaughtBefore
<1>4. PICK h \in Entities : /\ Named(name) = {g} /\ Named(tname) = {h}
                            /\ <<g, link, h>> \in Active(links)
  BY <1>2, <1>3 DEF TaughtStands
<1>5. e = g /\ e \in Active(entities)
  BY <1>4, KnownEntity
<1>6. f = h /\ f \in Active(entities)
  <2>1. CASE tname = name
    BY <1>4, <1>5, <2>1
  <2>2. CASE tname # name
    BY <1>4, <2>2, KnownEntity
  <2> QED BY <2>1, <2>2
<1>7. entities' = entities
  <2>1. IsTable(entities, Entities) /\ {e, f} \in SUBSET Active(entities)
    BY <1>5, <1>6 DEF Inductive, TypeOK
  <2>2. Activated(entities, {e, f}) = entities
    BY <2>1, AlreadyActive
  <2> QED BY <1>1, <2>2 DEF Activate
<1>8. links' = links
  <2>1. IsTable(links, LinkKeys) /\ {<<e, link, f>>} \in SUBSET Active(links)
    BY <1>4, <1>5, <1>6 DEF Inductive, TypeOK
  <2> QED BY <1>1, <2>1, AlreadyActive
<1> QED BY <1>1, <1>7, <1>8 DEF tables

\* The calls that forget find nothing when they are repeated: the repetition
\* is refused.
LEMMA NothingForgottenAgain ==
  ASSUME Inductive, Repeated, NEW reference, NEW a, NEW b
  PROVE  /\ ~DeprecateAlias(reference, a)
         /\ ~DeprecateFact(reference, a, b)
         /\ ~DeprecateRelationship(reference, a, b)
<1>1. ASSUME DeprecateAlias(reference, a) PROVE FALSE
  <2>1. PICK e \in Denotes(reference) :
          /\ <<e, a>> \in Active(aliases)
          /\ Return("deprecated", <<"deprecate_alias", reference, a>>)
    BY <1>1, RepeatedIsNotRefused, Zenon DEF DeprecateAlias
  <2>2. reply'.call = <<"deprecate_alias", reference, a>>
    BY <2>1 DEF Return
  <2> QED BY <2>1, <2>2, ForgottenBefore DEF ForgottenStands
<1>2. ASSUME DeprecateFact(reference, a, b) PROVE FALSE
  <2>1. /\ MatchingFacts(reference, a, b) # {}
        /\ reply'.call = <<"deprecate_fact", reference, a, b>>
    BY <1>2, RepeatedIsNotRefused DEF DeprecateFact, Return
  <2> QED BY <2>1, ForgottenBefore DEF ForgottenStands
<1>3. ASSUME DeprecateRelationship(reference, a, b) PROVE FALSE
  <2>1. /\ MatchingLinks(reference, a, b) # {}
        /\ reply'.call = <<"deprecate_relationship", reference, a, b>>
    BY <1>3, RepeatedIsNotRefused DEF DeprecateRelationship, Return
  <2> QED BY <2>1, ForgottenBefore DEF ForgottenStands
<1> QED BY <1>1, <1>2, <1>3

\* A call that is repeated at once and carried out again changes nothing:
\* teaching is idempotent, and forgetting is refused the second time.
THEOREM RepeatsChangeNothingHolds == Spec => RepeatsChangeNothing
<1>1. Inductive /\ [Next]_vars =>
        [reply.call # None /\ reply'.call = reply.call => UNCHANGED tables]_vars
  <2> SUFFICES ASSUME Inductive, Next, Repeated PROVE UNCHANGED tables
    BY DEF Repeated
  <2>1. CASE Teach
    BY <2>1, CreateEntityAgain, AddAliasAgain, AddFactAgain, AddRelationshipAgain
       DEF Teach
  <2>2. CASE Forget
    BY <2>2, NothingForgottenAgain DEF Forget
  <2> QED BY <2>1, <2>2 DEF Next
<1> QED BY <1>1, InductiveHolds, PTL DEF Spec, RepeatsChangeNothing
=============================================================================
