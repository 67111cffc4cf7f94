---------------------------- MODULE ContextRegistry ----------------------------
(***************************************************************************)
(* The context registry: entities, their aliases, facts and relationships,   *)
(* as app/context/service.py changes them through app/context/repository.py. *)
(*                                                                         *)
(* Every mutation is one BEGIN IMMEDIATE transaction, so it is one step, and *)
(* an exception rolls it back whole: what a refused call had already         *)
(* written (the entity it created on the way) is not there afterwards.       *)
(*                                                                         *)
(* A row is its UNIQUE key, and no row is ever deleted: a table is a         *)
(* function from the rows it has to their column active.  Names, aliases,   *)
(* predicates and texts are their normal forms; Blank is the normal form of *)
(* a text without letters or numbers.                                      *)
(***************************************************************************)
EXTENDS FiniteSets

CONSTANTS Types,          \* EntityType
          References,     \* normalized names and aliases
          Predicates,     \* normalized predicates of facts
          Values,         \* values of facts, as value_json
          Normal(_),      \* normalized_value of a value
          Links,          \* normalized relationship types
          Blank,          \* the normal form of "...": an empty string
          None,           \* no optional argument
          InitialTables   \* entities and aliases an instance starts from

VARIABLES entities,   \* context_entities
          aliases,    \* context_aliases
          facts,      \* context_facts
          links,      \* context_relationships
          reply       \* what the service last returned, and to which call

tables == <<entities, aliases, facts, links>>
vars == <<entities, aliases, facts, links, reply>>

Entities == Types \X References
AliasKeys == Entities \X References
FactKeys == Entities \X Predicates \X Values
LinkKeys == Entities \X Links \X Entities

\* What a client may name: an EntityInput, a reference.
Names == References \cup {Blank}
NormalValues == {Normal(v) : v \in Values}

Statuses == {"created", "unchanged", "deprecated", "not_found", "ambiguous",
             "conflict", "invalid"}

Active(table) == {k \in DOMAIN table : table[k]}

IsTable(table, K) == DOMAIN table \subseteq K /\ table \in [DOMAIN table -> BOOLEAN]

\* The database of a new installation, or rows from before the registry
\* guarded them: names and aliases may be shared, entities may be inactive.
ASSUME InitialTablesAssumption ==
  \A d \in InitialTables :
    /\ IsTable(d.entities, Entities)
    /\ IsTable(d.aliases, AliasKeys)
    /\ \A k \in Active(d.aliases) : k[1] \in Active(d.entities)

ASSUME BlankAssumption ==
  /\ Blank \notin References
  /\ Blank \notin Predicates
  /\ Blank \notin Links
  /\ None \notin Names
  /\ None \notin NormalValues
  /\ None \notin Statuses

TypeOK ==
  /\ IsTable(entities, Entities)
  /\ IsTable(aliases, AliasKeys)
  /\ IsTable(facts, FactKeys)
  /\ IsTable(links, LinkKeys)
  /\ reply.status \in Statuses \cup {None}

EmptyTable == [k \in {} |-> TRUE]

Init ==
  /\ \E d \in InitialTables : entities = d.entities /\ aliases = d.aliases
  /\ facts = EmptyTable
  /\ links = EmptyTable
  /\ reply = [status |-> None, call |-> None]

\* Rows K are inserted or reactivated.
Activated(table, K) == [k \in DOMAIN table \cup K |-> k \in K \/ table[k]]

\* The active rows among K are deprecated.
Deprecated(table, K) == [k \in DOMAIN table |-> table[k] /\ k \notin K]

-----------------------------------------------------------------------------
(* Reading.                                                                *)

Named(name) == {e \in Active(entities) : e[2] = name}

AliasHolders(name) ==
  {e \in Active(entities) : <<e, name>> \in Active(aliases)}

\* resolve: the canonical name first, then the aliases.
Denotes(reference) ==
  IF reference = Blank THEN {}
  ELSE IF Named(reference) # {} THEN Named(reference)
  ELSE AliasHolders(reference)

Several(S) == \E x, y \in S : x # y

-----------------------------------------------------------------------------
(* Answering.                                                              *)

Return(status, call) == reply' = [status |-> status, call |-> call]

\* Nothing was changed: an early return, or an exception and its rollback.
Refuse(status) == Return(status, None) /\ UNCHANGED tables

\* A row that was missing or deprecated is reported as created.
Stored(table, k) == IF k \in Active(table) THEN "unchanged" ELSE "created"

-----------------------------------------------------------------------------
(* create_or_get_entity.                                                   *)

\* Fault: the name is only looked up together with the type.
EntityRowTyped(type, name) == {<<type, name>>}

\* The row an EntityInput ends up in: the active entity of that name whatever
\* its type, else the row of that type and name, inserted or reactivated.
EntityRow(type, name) ==
  IF Named(name) # {} THEN Named(name) ELSE {<<type, name>>}

\* The calls that find no row: an empty name, or one that several share.
EntityRefused(name) ==
  \/ name = Blank /\ Refuse("invalid")
  \/ Several(Named(name)) /\ Refuse("ambiguous")

Usable(name) == name # Blank /\ ~Several(Named(name))

\* Fault: an inactive entity is used as it is.
ActivateMissing(E) == entities' = Activated(entities, E \ DOMAIN entities)

Activate(E) == entities' = Activated(entities, E)

-----------------------------------------------------------------------------
(* Teaching.                                                               *)

CreateEntity(type, name) ==
  \/ EntityRefused(name)
  \/ /\ Usable(name)
     /\ \E e \in EntityRow(type, name) :
          /\ Activate({e})
          /\ Return(IF e \in DOMAIN entities THEN "unchanged" ELSE "created",
                    <<"create_entity", type, name>>)
     /\ UNCHANGED <<aliases, facts, links>>

\* Fault: any active alias of that text is overlooked.
UnclaimedAlways(e, alias) == TRUE

\* No other active entity answers to the alias.
Unclaimed(e, alias) == AliasHolders(alias) \subseteq {e}

AddAlias(type, name, alias) ==
  \/ EntityRefused(name)
  \/ Usable(name) /\ alias = Blank /\ Refuse("invalid")
  \/ /\ Usable(name)
     /\ alias # Blank
     /\ \E e \in EntityRow(type, name) :
          \/ ~Unclaimed(e, alias) /\ Refuse("conflict")
          \/ /\ Unclaimed(e, alias)
             /\ Activate({e})
             /\ aliases' = Activated(aliases, {<<e, alias>>})
             /\ Return(Stored(aliases, <<e, alias>>),
                       <<"add_alias", type, name, alias>>)
             /\ UNCHANGED <<facts, links>>

\* The other active values of a predicate, which a correction deprecates.
Replaced(e, predicate, value) ==
  {k \in Active(facts) : k[1] = e /\ k[2] = predicate /\ k[3] # value}

AddFact(type, name, predicate, value, replace) ==
  \/ EntityRefused(name)
  \/ Usable(name) /\ (predicate = Blank \/ Normal(value) = Blank) /\ Refuse("invalid")
  \/ /\ Usable(name)
     /\ predicate # Blank
     /\ Normal(value) # Blank
     /\ \E e \in EntityRow(type, name) :
          LET row == <<e, predicate, value>>
              out == IF replace THEN Replaced(e, predicate, value) ELSE {}
              kept == Deprecated(facts, out)
          IN  /\ Activate({e})
              /\ facts' = Activated(kept, {row})
              /\ Return(Stored(kept, row),
                        <<"add_fact", type, name, predicate, value, replace>>)
              /\ UNCHANGED <<aliases, links>>

\* The target is looked up after the source is stored: the same name is the
\* same entity.
AddRelationship(type, name, link, ttype, tname) ==
  \/ EntityRefused(name)
  \/ Usable(name) /\ EntityRefused(tname)
  \/ Usable(name) /\ Usable(tname) /\ link = Blank /\ Refuse("invalid")
  \/ /\ Usable(name)
     /\ Usable(tname)
     /\ link # Blank
     /\ \E e \in EntityRow(type, name) :
        \E f \in (IF tname = name THEN {e} ELSE EntityRow(ttype, tname)) :
          /\ Activate({e, f})
          /\ links' = Activated(links, {<<e, link, f>>})
          /\ Return(Stored(links, <<e, link, f>>),
                    <<"add_relationship", type, name, link, ttype, tname>>)
     /\ UNCHANGED <<aliases, facts>>

-----------------------------------------------------------------------------
(* Forgetting.                                                             *)

DeprecateAlias(reference, alias) ==
  \/ Denotes(reference) = {} /\ Refuse("not_found")
  \/ Several(Denotes(reference)) /\ Refuse("ambiguous")
  \/ /\ ~Several(Denotes(reference))
     /\ \E e \in Denotes(reference) :
          IF <<e, alias>> \in Active(aliases)
          THEN /\ aliases' = Deprecated(aliases, {<<e, alias>>})
               /\ Return("deprecated", <<"deprecate_alias", reference, alias>>)
               /\ UNCHANGED <<entities, facts, links>>
          ELSE Refuse("not_found")

\* matching_facts over every candidate of the reference.
MatchingFacts(reference, predicate, text) ==
  {k \in Active(facts) : /\ k[1] \in Denotes(reference)
                         /\ k[2] = predicate
                         /\ text = None \/ Normal(k[3]) = text}

\* Fault: every match is deprecated.
DeprecateEveryFact(reference, predicate, text) ==
  LET matches == MatchingFacts(reference, predicate, text) IN
  \/ matches = {} /\ Refuse("not_found")
  \/ /\ matches # {}
     /\ facts' = Deprecated(facts, matches)
     /\ Return("deprecated", <<"deprecate_fact", reference, predicate, text>>)
     /\ UNCHANGED <<entities, aliases, links>>

\* Fault: some match is deprecated.
DeprecateSomeFact(reference, predicate, text) ==
  LET matches == MatchingFacts(reference, predicate, text) IN
  \/ matches = {} /\ Refuse("not_found")
  \/ /\ \E k \in matches : facts' = Deprecated(facts, {k})
     /\ Return("deprecated", <<"deprecate_fact", reference, predicate, text>>)
     /\ UNCHANGED <<entities, aliases, links>>

\* A reference to several entities is accepted when a single fact matches.
DeprecateFact(reference, predicate, text) ==
  LET matches == MatchingFacts(reference, predicate, text) IN
  \/ matches = {} /\ Refuse("not_found")
  \/ Several(matches) /\ Refuse("ambiguous")
  \/ /\ ~Several(matches)
     /\ matches # {}
     /\ facts' = Deprecated(facts, matches)
     /\ Return("deprecated", <<"deprecate_fact", reference, predicate, text>>)
     /\ UNCHANGED <<entities, aliases, links>>

MatchingLinks(reference, link, target) ==
  {k \in Active(links) : /\ k[1] \in Denotes(reference)
                         /\ k[2] = link
                         /\ target = None \/ k[3] \in Denotes(target)}

\* The target, if there is one, has to be found and to be unique.
DeprecateRelationship(reference, link, target) ==
  LET matches == MatchingLinks(reference, link, target)
      unclear == target # None /\ Several(Denotes(target))
  IN
  \/ Denotes(reference) # {} /\ unclear /\ Refuse("ambiguous")
  \/ /\ Denotes(reference) = {} \/ (~unclear /\ matches = {})
     /\ Refuse("not_found")
  \/ ~unclear /\ Several(matches) /\ Refuse("ambiguous")
  \/ /\ ~unclear
     /\ ~Several(matches)
     /\ matches # {}
     /\ links' = Deprecated(links, matches)
     /\ Return("deprecated", <<"deprecate_relationship", reference, link, target>>)
     /\ UNCHANGED <<entities, aliases, facts>>

-----------------------------------------------------------------------------

Teach ==
  \E type \in Types, name \in Names :
    \/ CreateEntity(type, name)
    \/ \E alias \in Names : AddAlias(type, name, alias)
    \/ \E predicate \in Predicates \cup {Blank}, value \in Values, replace \in BOOLEAN :
         AddFact(type, name, predicate, value, replace)
    \/ \E link \in Links \cup {Blank}, ttype \in Types, tname \in Names :
         AddRelationship(type, name, link, ttype, tname)

Forget ==
  \E reference \in Names :
    \/ \E alias \in Names : DeprecateAlias(reference, alias)
    \/ \E predicate \in Predicates \cup {Blank}, text \in NormalValues \cup {None} :
         DeprecateFact(reference, predicate, text)
    \/ \E link \in Links \cup {Blank}, target \in Names \cup {None} :
         DeprecateRelationship(reference, link, target)

Next == Teach \/ Forget

Spec == Init /\ [][Next]_vars

-----------------------------------------------------------------------------
(* What the registry promises.                                             *)

\* Whatever is active hangs on entities that are active, so that a query of
\* the entity shows it: no alias, fact or relationship is taught to an entity
\* that resolve() does not see.
RecordsAreReachable ==
  /\ \A k \in Active(aliases) \cup Active(facts) : k[1] \in Active(entities)
  /\ \A k \in Active(links) : k[1] \in Active(entities) /\ k[3] \in Active(entities)

Ambiguous(reference) == Several(Denotes(reference))

\* No sequence of calls makes a reference ambiguous: an ambiguity in the
\* database was there from the start, and in a new one there is none.
AmbiguityNeverGrows ==
  [][\A name \in References : Ambiguous(name)' => Ambiguous(name)]_vars

\* What was just taught of a name is found by that name: the name denotes the
\* one entity the record went to, and after a correction the predicate has no
\* other value.
TaughtIsFound ==
  LET call == reply.call IN
  reply.status \in {"created", "unchanged"} =>
    \E e \in Entities :
      /\ Denotes(call[3]) = {e}
      /\ CASE call[1] = "create_entity" -> TRUE
           [] call[1] = "add_alias"     -> <<e, call[4]>> \in Active(aliases)
           [] call[1] = "add_fact"      ->
                /\ <<e, call[4], call[5]>> \in Active(facts)
                /\ call[6] => \A v \in Values \ {call[5]} :
                                <<e, call[4], v>> \notin Active(facts)
           [] call[1] = "add_relationship" ->
                \E f \in Entities : /\ Denotes(call[6]) = {f}
                                    /\ <<e, call[4], f>> \in Active(links)

Gone(table, next) == Active(table) \ Active(next)

\* A call forgets at most one record, and only if it was asked to; only a
\* correction takes several, all of them values of what it corrects.
ForgetsAtMostOneStep ==
  LET goneFacts == Gone(facts, facts')
      gone == Gone(aliases, aliases') \cup Gone(links, links') \cup goneFacts
  IN  /\ Gone(entities, entities') = {}
      /\ gone # {} => \/ reply'.status = "deprecated" /\ ~Several(gone)
                      \/ /\ reply'.call[1] = "add_fact"
                         /\ gone = goneFacts
                         /\ \A k, l \in gone : k[1] = l[1] /\ k[2] = l[2]

ForgetsAtMostOne == [][ForgetsAtMostOneStep]_vars

\* A call that is repeated at once and carried out again changes nothing:
\* teaching is idempotent, and no second record is forgotten in the place of
\* the first.
RepeatsChangeNothing ==
  [][reply.call # None /\ reply'.call = reply.call => UNCHANGED tables]_vars

\* The answer of the last call still describes the tables.  A name that was
\* just taught is borne by one active entity, not merely by an alias of it;
\* and what was just forgotten matches nothing any more.
TaughtStands(e, call) ==
  /\ Named(call[3]) = {e}
  /\ \/ call[1] = "create_entity"
     \/ call[1] = "add_alias" /\ <<e, call[4]>> \in Active(aliases)
     \/ /\ call[1] = "add_fact"
        /\ <<e, call[4], call[5]>> \in Active(facts)
        /\ call[6] => Replaced(e, call[4], call[5]) = {}
     \/ /\ call[1] = "add_relationship"
        /\ call[6] # Blank
        /\ \E f \in Entities : /\ Named(call[6]) = {f}
                             /\ <<e, call[4], f>> \in Active(links)

ForgottenStands(call) ==
  \/ /\ call[1] = "deprecate_alias"
     /\ \A e \in Denotes(call[2]) : <<e, call[3]>> \notin Active(aliases)
  \/ /\ call[1] = "deprecate_fact"
     /\ MatchingFacts(call[2], call[3], call[4]) = {}
  \/ /\ call[1] = "deprecate_relationship"
     /\ MatchingLinks(call[2], call[3], call[4]) = {}

LastCallStands ==
  \/ /\ reply.status \in {"created", "unchanged"}
     /\ reply.call[3] # Blank
     /\ \E e \in Entities : TaughtStands(e, reply.call)
  \/ reply.status = "deprecated" /\ ForgottenStands(reply.call)
  \/ reply.status \notin {"created", "unchanged", "deprecated"} /\ reply.call = None

Inductive == TypeOK /\ RecordsAreReachable /\ LastCallStands

-----------------------------------------------------------------------------
(* What the documents say and the code does not.                           *)

\* docs/context-registry.md: "an active alias cannot silently move to another
\* entity".  What an active alias denotes stays what it denotes.
AliasesDoNotMove ==
  [][\A k \in Active(aliases) :
       (Denotes(k[2]) = {k[1]} /\ aliases'[k]) => Denotes(k[2])' = {k[1]}]_vars
=============================================================================
