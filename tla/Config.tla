------------------------------- MODULE Config --------------------------------
(***************************************************************************)
(* Operators configure features and switch them off and on (handlers of    *)
(* the pages, internal/feature), and the provisioner keeps tenants,        *)
(* environments and their values (internal/environmentmanagement), while   *)
(* other requests do the same.  A handler of the pages runs in one READ    *)
(* COMMITTED transaction, whose statements are steps here: what it reads   *)
(* is not locked, what it writes is locked until the end, and its audit    *)
(* rows are committed with the change.  The provisioner's calls have no    *)
(* transaction; their audit row is a second statement that may fail.       *)
(*                                                                         *)
(* A row is addressed by its table and its key there: <<"global", <<feature,*)
(* key>>>>, <<"env", <<environment, feature, key>>>> or <<"off",           *)
(* <<environment, feature>>>>.  A form that was loaded with a page carries *)
(* the id the row had then.                                                *)
(***************************************************************************)
EXTENDS Pages

CONSTANTS
    Requests,          \* the requests a run makes
    Values,            \* the values operators configure
    Forms,             \* the sequences of items operators submit
    Provisions,        \* the calls the provisioner makes
    InitEnvironments, InitAssigned,
    InitConfig,        \* [address -> value] configured at the start
    MaxFaults          \* bound: failing statements and crashes

VARIABLES
    tenants,    \* set of names
    req,        \* [request -> pc, form, ids, todo, old, writes, audits]
    nextId,     \* the next row id
    faultsLeft

vars == <<tables, tenants, req, nextId, faultsLeft>>
logs == <<deployLog, decisionLog>>
provisioned == <<environments, environmentValues, tenants>>
assigned == <<featureData, featureAssignments, healthStatuses>>
configured == <<globalConfig, envConfig, disabledFeatures>>

\* Items of a form.
Set(at, value) == [kind |-> "set", at |-> at, value |-> value]
Update(at, value) == [kind |-> "update", at |-> at, value |-> value]
Delete(at) == [kind |-> "delete", at |-> at]
Disable(e, f) == [kind |-> "disable", at |-> <<"off", <<e, f>>>>]
Enable(e, f) == [kind |-> "enable", at |-> <<"off", <<e, f>>>>]
\* Calls of the provisioner.
MakeTenant(name) == [kind |-> "tenant", name |-> name]
MakeEnvironment(e, row) == [kind |-> "environment", env |-> e, row |-> row]
Relabel(e, labels) == [kind |-> "labels", env |-> e, labels |-> labels]
SetValue(e, k, row) == [kind |-> "value", env |-> e, key |-> k, row |-> row]
DropValue(e, k) == [kind |-> "novalue", env |-> e, key |-> k]

FeatureAt(at) == IF at[1] = "global" THEN at[2][1] ELSE at[2][2]
EnvAt(at) == IF at[1] = "global" THEN NoRow ELSE at[2][1]
KeyAt(at) == Last(at[2])

\* A row of the two tables of values, and what is addressed in them.
ConfigRow == [id : Nat, value : Values, secret : BOOLEAN]
KeyOfTable(name, k) == IF name = "global" THEN k = <<k[1], k[2]>> ELSE k = <<k[1], k[2], k[3]>>
ValueAddress(at) == /\ at = <<at[1], at[2]>> /\ at[1] \in {"global", "env"}
                    /\ KeyOfTable(at[1], at[2])
SwitchAddress(at) == at = <<"off", <<at[2][1], at[2][2]>>>>
ItemOK(item) ==
    \/ item.kind = "delete" /\ ValueAddress(item.at)
    \/ item.kind \in {"set", "update"} /\ ValueAddress(item.at) /\ item.value \in Values
    \/ item.kind \in {"disable", "enable"} /\ SwitchAddress(item.at)

\* The charts and the assignments there are; nobody makes others.
InitData ==
    [k \in {<<a[1].name, a[1].version>> : a \in Range(InitAssigned)} |->
        CHOOSE c \in Charts : k = <<c.name, c.version>>]
InitAssignments ==
    [id \in DOMAIN InitAssigned |->
        [id |-> id, feature |-> InitAssigned[id][1].name,
         version |-> InitAssigned[id][1].version, target |-> InitAssigned[id][2],
         created |-> id, active |-> TRUE]]

ASSUME ConfigAssumption ==
    /\ MaxFaults \in Nat
    /\ \A form \in Forms : /\ form \in Seq(Range(form))
                            /\ \A i \in DOMAIN form : ItemOK(form[i])
    /\ IsFiniteSet(DOMAIN InitConfig)
    /\ \A at \in DOMAIN InitConfig : ValueAddress(at) /\ InitConfig[at] \in Values
    /\ NoRow \notin ConfigRow /\ NoRow \notin Nat /\ NoRow \notin Range(InitAssignments)
    /\ \A call \in Provisions : call.kind = "value" => call.row # NoRow
    /\ InitAssigned \in Seq(Range(InitAssigned))
    /\ \A a \in Range(InitAssigned) : a[1] \in Charts /\ IsFiniteSet(DOMAIN a[2])

Unread == [value |-> NoRow, secret |-> FALSE]   \* what a handler has read
Waiting == [pc |-> "idle", form |-> <<>>, ids |-> EmptyTable, todo |-> <<>>,
            old |-> Unread, writes |-> EmptyTable, audits |-> <<>>]

-----------------------------------------------------------------------------
(* Statements: what is committed, and what a transaction sees *)

GetGlobalConfigByKey(at) == Lookup(globalConfig, at[2])
GetEnvConfigByKey(at) == Lookup(envConfig, at[2])
GetDisabledFeature(at) == IF at[2] \in disabledFeatures THEN [id |-> 0] ELSE NoRow

Committed(at) == CASE at[1] = "global" -> GetGlobalConfigByKey(at)
                   [] at[1] = "env"    -> GetEnvConfigByKey(at)
                   [] at[1] = "off"    -> GetDisabledFeature(at)
Seen(r, at) == IF at \in DOMAIN req[r].writes THEN req[r].writes[at] ELSE Committed(at)

\* Another transaction has a row of this address in its hands.
Locked(r, at) == \E other \in Requests \ {r} : at \in DOMAIN req[other].writes

\* Whether the chart the environment gets, or the newest one for a global
\* value, declares the key secret.
DeclaredSecret(at) ==
    LET chart == IF at[1] = "global" THEN FeatureByName(FeatureAt(at))
                 ELSE FeatureForEnvironment(EnvAt(at), FeatureAt(at))
    IN  chart # NoRow /\ KeyAt(at) \in SecretKeys(chart)

\* The value before an override exists is the global one.
PreviousValue(r, at) ==
    LET row == Seen(r, at)
        global == Lookup(globalConfig, <<FeatureAt(at), KeyAt(at)>>)
    IN  IF row # NoRow THEN row.value
        ELSE IF at[1] = "env" /\ global # NoRow THEN global.value ELSE NoRow

\* configChangeMetadata: the values of a secret are left out.
configChangeMetadata(secret, old, new) ==
    IF secret THEN [old |-> Redacted, new |-> Redacted] ELSE [old |-> old, new |-> new]

AuditRow(action, at, meta) ==
    [action |-> action, at |-> at, feature |-> FeatureAt(at), env |-> EnvAt(at), meta |-> meta]
NoMeta == [old |-> NoRow, new |-> NoRow]

-----------------------------------------------------------------------------
(* The handlers of the pages *)

\* A page is loaded, filled in and submitted; ids is what the page has read.
Submit(r, form) ==
    /\ req[r].pc = "idle"
    /\ \A i \in DOMAIN form : form[i].kind \in {"update", "delete"} =>
          Committed(form[i].at) # NoRow
    /\ req' = [req EXCEPT ![r] = [@ EXCEPT
          !.pc = "read", !.form = form, !.todo = form,
          !.ids = [i \in {j \in DOMAIN form : form[j].kind \in {"update", "delete"}} |->
                     Committed(form[i].at).id]]]
    /\ UNCHANGED <<tables, tenants, nextId, faultsLeft>>

Item(r) == Head(req[r].todo)
ItemId(r) == req[r].ids[Len(req[r].form) - Len(req[r].todo) + 1]
InTx(r) == req[r].pc \in {"read", "write"}

\* A transaction is over, by commit or by rollback.
Went(r, pc) == [req[r] EXCEPT !.pc = pc, !.writes = EmptyTable, !.audits = <<>>]
Skipped(r) == [req[r] EXCEPT !.pc = "read", !.todo = Tail(@)]

\* CreateEnvConfig and CreateGlobalConfig up to the upsert: nothing is to be
\* done when value and secrecy are the stored ones.
ReadForSet(r) ==
    LET at == Item(r).at
        row == Seen(r, at)
    IN  /\ Item(r).kind = "set"
        /\ req' = [req EXCEPT ![r] =
              IF row # NoRow /\ row.value = Item(r).value /\ row.secret = DeclaredSecret(at)
              THEN Skipped(r)
              ELSE [@ EXCEPT !.pc = "write", !.old.value = PreviousValue(r, at)]]

\* UpdateEnvConfig, UpdateConfig, DeleteEnvConfig, DeleteConfig: the row is
\* read by its id; one that is gone fails the update and ends the delete.
ReadById(r) ==
    LET row == Seen(r, Item(r).at)
        gone == row = NoRow \/ row.id # ItemId(r)
    IN  /\ Item(r).kind \in {"update", "delete"}
        /\ req' = [req EXCEPT ![r] =
              IF gone THEN IF Item(r).kind = "update" THEN Went(r, "failed") ELSE Skipped(r)
              ELSE IF Item(r).kind = "update" /\ row.value = Item(r).value THEN Skipped(r)
              ELSE [@ EXCEPT !.pc = "write", !.old = [value |-> row.value, secret |-> row.secret]]]

Read(r) ==
    /\ req[r].pc = "read" /\ req[r].todo # <<>>
    /\ \/ ReadForSet(r)
       \/ ReadById(r)
       \/ /\ Item(r).kind \in {"disable", "enable"}
          /\ req' = [req EXCEPT ![r].pc = "write"]
    /\ UNCHANGED <<tables, tenants, nextId, faultsLeft>>

\* A statement has written a row (or deleted it) and its audit row.
Wrote(r, row, audit) ==
    [req[r] EXCEPT !.pc = "read", !.todo = Tail(@), !.audits = Append(@, audit),
                   !.writes = Put(@, Item(r).at, row)]
OnlyAudit(r, audit) ==
    [req[r] EXCEPT !.pc = "read", !.todo = Tail(@), !.audits = Append(@, audit)]

\* UpsertEnvConfig, UpsertGlobalConfig and writeConfigUpsertAudit.  On
\* conflict the value is replaced and the column secret is not.
Upsert(r) ==
    LET at == Item(r).at
        row == Seen(r, at)
        value == Item(r).value
        new == IF row # NoRow THEN [row EXCEPT !.value = value]
               ELSE [id |-> nextId, value |-> value, secret |-> DeclaredSecret(at)]
    IN  /\ Item(r).kind = "set" /\ ~Locked(r, at)
        /\ req' = [req EXCEPT ![r] = Wrote(r, new, AuditRow("set", at,
              configChangeMetadata(DeclaredSecret(at), req[r].old.value, value)))]
        /\ nextId' = nextId + 1

\* Mutant: the audit row carries the value that was read.
UpdateByIdMutant(r) ==
    LET at == Item(r).at
        row == Seen(r, at)
        new == [row EXCEPT !.value = Item(r).value]
    IN  /\ Item(r).kind = "update" /\ ~Locked(r, at)
        /\ req' = [req EXCEPT ![r] =
              IF row = NoRow \/ row.id # ItemId(r) THEN Went(r, "failed")
              ELSE Wrote(r, new, AuditRow("set", at,
                     configChangeMetadata(row.secret, req[r].old.value, req[r].old.value)))]
        /\ UNCHANGED nextId
\* UpdateEnvConfig and UpdateGlobalConfig: no row is an error.
UpdateById(r) ==
    LET at == Item(r).at
        row == Seen(r, at)
        new == [row EXCEPT !.value = Item(r).value]
    IN  /\ Item(r).kind = "update" /\ ~Locked(r, at)
        /\ req' = [req EXCEPT ![r] =
              IF row = NoRow \/ row.id # ItemId(r) THEN Went(r, "failed")
              ELSE Wrote(r, new, AuditRow("set", at,
                     configChangeMetadata(row.secret, req[r].old.value, new.value)))]
        /\ UNCHANGED nextId

\* DeleteEnvConfig and DeleteGlobalConfig: no row is no error, and audited.
DeleteById(r) ==
    LET at == Item(r).at
        row == Seen(r, at)
        mine == row # NoRow /\ row.id = ItemId(r)
        audit == AuditRow("delete", at, configChangeMetadata(req[r].old.secret, req[r].old.value, NoRow))
    IN  /\ Item(r).kind = "delete" /\ (mine => ~Locked(r, at))
        /\ req' = [req EXCEPT ![r] = IF mine THEN Wrote(r, NoRow, audit) ELSE OnlyAudit(r, audit)]
        /\ UNCHANGED nextId

\* DisableFeature: ON CONFLICT DO NOTHING, after waiting for a conflicting row.
SetDisabledFeature(r) ==
    LET at == Item(r).at
        audit == AuditRow("disable", at, NoMeta)
    IN  /\ Item(r).kind = "disable" /\ ~Locked(r, at)
        /\ req' = [req EXCEPT ![r] = IF Seen(r, at) # NoRow THEN OnlyAudit(r, audit)
                                     ELSE Wrote(r, [id |-> 0], audit)]
        /\ UNCHANGED nextId

\* EnableFeature: a row another transaction has only inserted is not seen.
DeleteDisabledFeature(r) ==
    LET at == Item(r).at
        audit == AuditRow("enable", at, NoMeta)
        there == Seen(r, at) # NoRow
    IN  /\ Item(r).kind = "enable" /\ (there => ~Locked(r, at))
        /\ req' = [req EXCEPT ![r] = IF there THEN Wrote(r, NoRow, audit)
                                     ELSE OnlyAudit(r, audit)]
        /\ UNCHANGED nextId

Write(r) ==
    /\ req[r].pc = "write"
    /\ \/ Upsert(r)
       \/ UpdateById(r)
       \/ DeleteById(r)
       \/ SetDisabledFeature(r)
       \/ DeleteDisabledFeature(r)
    /\ UNCHANGED <<tables, tenants, faultsLeft>>

\* The keys a transaction has written in a table, and those it has deleted.
Written(name, writes) ==
    {at[2] : at \in {x \in DOMAIN writes : x[1] = name /\ writes[x] # NoRow}}
Deleted(name, writes) ==
    {at[2] : at \in {x \in DOMAIN writes : x[1] = name /\ writes[x] = NoRow}}
\* The rows of one table with the writes of a transaction applied.
Applied(table, name, writes) ==
    [k \in (DOMAIN table \cup Written(name, writes)) \ Deleted(name, writes) |->
        IF k \in Written(name, writes) THEN writes[<<name, k>>] ELSE table[k]]

\* Mutant: the audit rows are written after the transaction, errors ignored.
CommittedAuditsMutant(r) == audits
CommittedAudits(r) == audits \o req[r].audits

Commit(r) ==
    LET writes == req[r].writes
    IN  /\ req[r].pc = "read" /\ req[r].todo = <<>>
        /\ globalConfig' = Applied(globalConfig, "global", writes)
        /\ envConfig' = Applied(envConfig, "env", writes)
        /\ disabledFeatures' =
             (disabledFeatures \cup Written("off", writes)) \ Deleted("off", writes)
        /\ audits' = CommittedAudits(r)
        /\ req' = [req EXCEPT ![r] = Went(r, "done")]
        /\ UNCHANGED <<provisioned, assigned, logs, nextId, faultsLeft>>

-----------------------------------------------------------------------------
(* The provisioner: gRPC, one statement and one audit row per call *)

\* What the lookups by id find; without a row the call ends with NotFound.
GetTenant(name) == {t \in tenants : t = name}
GetEnvironment(e) == Lookup(environments, e)

CreateTenant(call) ==
    /\ call.kind = "tenant" /\ call.name \notin tenants
    /\ tenants' = tenants \cup {call.name}
    /\ UNCHANGED <<environments, environmentValues>>
CreateEnvironment(call) ==
    /\ call.kind = "environment"
    /\ GetTenant(TenantOf(call.env)) # {} /\ call.env \notin DOMAIN environments
    /\ environments' = Put(environments, call.env, call.row)
    /\ UNCHANGED <<environmentValues, tenants>>
\* The labels of the call replace the stored ones.
UpdateEnvironment(call) ==
    /\ call.kind = "labels" /\ GetEnvironment(call.env) # NoRow
    /\ environments' = [environments EXCEPT ![call.env].labels = call.labels]
    /\ UNCHANGED <<environmentValues, tenants>>
\* The foreign key of environment_values stands for the lookup.
SetEnvironmentValue(call) ==
    /\ call.kind = "value" /\ call.env \in DOMAIN environments
    /\ environmentValues' = Put(environmentValues, <<call.env, call.key>>, call.row)
    /\ UNCHANGED <<environments, tenants>>
\* A key that has no value is deleted, and audited, all the same.
DeleteEnvironmentValue(call) ==
    /\ call.kind = "novalue" /\ call.env \in DOMAIN environments
    /\ environmentValues' = Drop(environmentValues, <<call.env, call.key>>)
    /\ UNCHANGED <<environments, tenants>>

Call(r, call) ==
    /\ req[r].pc = "idle"
    /\ \/ CreateTenant(call)
       \/ CreateEnvironment(call)
       \/ UpdateEnvironment(call)
       \/ SetEnvironmentValue(call)
       \/ DeleteEnvironmentValue(call)
    /\ req' = [req EXCEPT ![r].pc = "audit", ![r].form = <<call>>]
    /\ UNCHANGED <<configured, assigned, logs, audits, nextId, faultsLeft>>

\* writeAudit; an error is only logged.
writeAudit(r) ==
    /\ req[r].pc = "audit"
    /\ audits' = Append(audits, [action |-> "provision", at |-> <<"provision", req[r].form[1].kind>>,
                                 feature |-> NoRow, env |-> NoRow, meta |-> NoMeta])
    /\ req' = [req EXCEPT ![r].pc = "done"]
    /\ UNCHANGED <<configured, provisioned, assigned, logs, nextId, faultsLeft>>

-----------------------------------------------------------------------------
(* Faults *)

\* A statement fails, or a value in the form cannot be parsed: WithTx rolls
\* back.  The process stops: so do all transactions.
Fault == faultsLeft > 0 /\ faultsLeft' = faultsLeft - 1
Fail(r) ==
    /\ Fault
    /\ InTx(r) \/ req[r].pc = "audit"
    /\ req' = [req EXCEPT ![r] = Went(r, IF InTx(r) THEN "failed" ELSE "done")]
    /\ UNCHANGED <<tables, tenants, nextId>>
Crash ==
    /\ Fault
    /\ \E r \in Requests : InTx(r)
    /\ req' = [r \in Requests |-> IF req[r].pc = "idle" THEN req[r] ELSE Went(r, "failed")]
    /\ UNCHANGED <<tables, tenants, nextId>>

-----------------------------------------------------------------------------
AllEnded == /\ \A r \in Requests : req[r].pc \in {"done", "failed"}
            /\ UNCHANGED vars

Next ==
    \/ \E r \in Requests :
          \/ \E form \in Forms : Submit(r, form)
          \/ Read(r)
          \/ Write(r)
          \/ Commit(r)
          \/ \E call \in Provisions : Call(r, call)
          \/ writeAudit(r)
          \/ Fail(r)
    \/ Crash
    \/ AllEnded

InitRow(at) == [id |-> 0, value |-> InitConfig[at], secret |-> FALSE]
InitTable(name) ==
    [k \in {at[2] : at \in {x \in DOMAIN InitConfig : x[1] = name}} |-> InitRow(<<name, k>>)]

Init ==
    /\ environments = InitEnvironments
    /\ tenants = {TenantOf(e) : e \in DOMAIN InitEnvironments}
    /\ featureData = InitData
    /\ featureAssignments = InitAssignments
    /\ globalConfig = InitTable("global") /\ envConfig = InitTable("env")
    /\ environmentValues = EmptyTable /\ disabledFeatures = {} /\ healthStatuses = EmptyTable
    /\ deployLog = <<>> /\ decisionLog = <<>>
    /\ audits = SetToSeq({AuditRow("set", at, [old |-> NoRow, new |-> InitConfig[at]]) :
                            at \in DOMAIN InitConfig})
    /\ req = [r \in Requests |-> Waiting]
    /\ nextId = 1
    /\ faultsLeft = MaxFaults

Spec == Init /\ [][Next]_vars

-----------------------------------------------------------------------------
(* The activity lists of the pages (internal/audit): the ids of their rows *)

ListForEnvironmentAudits(e) == {i \in DOMAIN audits : audits[i].env = e}
ListForFeature(f) == {i \in DOMAIN audits : audits[i].feature = f}
ListForFeatureInEnvironment(e, f) ==
    {i \in DOMAIN audits : audits[i].feature = f /\ audits[i].env = e}
ListGlobalConfigForFeature(f) ==
    {i \in DOMAIN audits : /\ audits[i].feature = f /\ audits[i].env = NoRow
                           /\ audits[i].at[1] = "global"}
LatestDisableReason(e, f) ==
    One({i \in ListForFeatureInEnvironment(e, f) :
            /\ audits[i].action = "disable"
            /\ \A j \in ListForFeatureInEnvironment(e, f) :
                  audits[j].action = "disable" => j <= i})

-----------------------------------------------------------------------------
(* GET /api/tenants *)

\* A tenant without environments has no row; a secret is not joined.
ProjectKey == "project_id"
ListTenantsWithEnvironments ==
    {[env |-> e, kind |-> environments[e].kind, labels |-> environments[e].labels,
      project |-> LET row == Lookup(environmentValues, <<e, ProjectKey>>)
                  IN  IF row # NoRow /\ ~row.secret THEN row.value ELSE NoRow] :
        e \in {x \in DOMAIN environments : TenantOf(x) \in tenants}}
GetTenants ==
    [t \in {TenantOf(r.env) : r \in ListTenantsWithEnvironments} |->
        {r \in ListTenantsWithEnvironments : TenantOf(r.env) = t}]

-----------------------------------------------------------------------------
(* Properties *)

Addresses == ({"global"} \X DOMAIN globalConfig) \cup ({"env"} \X DOMAIN envConfig)

\* The lists beside the pages that show the value of an address.
ActivityOf(at) ==
    {ListForFeature(FeatureAt(at))} \cup
    IF at[1] = "global" THEN {ListGlobalConfigForFeature(FeatureAt(at))}
    ELSE {ListForEnvironmentAudits(EnvAt(at)),
          ListForFeatureInEnvironment(EnvAt(at), FeatureAt(at))}
\* Entry i of a list is its latest about an address.
LatestAbout(list, i, at, actions) ==
    /\ i \in list /\ audits[i].at = at /\ audits[i].action \in actions
    /\ \A j \in list : audits[j].at = at /\ audits[j].action \in actions => j <= i

\* Create, update and delete of configuration by several operators at once:
\* the value in the table is the one the latest change in the activity list of
\* every page that shows it names, and a key without a row has a deletion as
\* its latest entry there.
AuditNamesTheValue ==
    /\ \A at \in Addresses : \A list \in ActivityOf(at) :
          \E i \in list : /\ LatestAbout(list, i, at, {"set"})
                          /\ audits[i].meta.new \in {Redacted, Committed(at).value}
    /\ \A n \in DOMAIN audits :
          (audits[n].action \in {"set", "delete"} /\ audits[n].at \notin Addresses) =>
          \A list \in ActivityOf(audits[n].at) :
              \E i \in list : /\ LatestAbout(list, i, audits[n].at, {"set", "delete"})
                              /\ audits[i].action = "delete"

\* DisableFeature: a feature that is switched off in an environment has the
\* reason in the audit log, where the page of the feature looks for it,
\* whichever requests race and whatever fails.
DisabledHasReason ==
    \A k \in disabledFeatures : LatestDisableReason(k[1], k[2]) # NoRow

\* What makes the two inductive, of a log and what it should tell: a request
\* has, for every row it will write, a last audit row that says so, and no row
\* that says a value is set where it writes none.
About(log, at, actions) == {i \in DOMAIN log : log[i].at = at /\ log[i].action \in actions}
LastOf(log, at, actions, i) ==
    i \in About(log, at, actions) /\ \A j \in About(log, at, actions) : j <= i
Tells(log, at, row) ==
    \/ /\ row # NoRow
       /\ \E i \in DOMAIN log : /\ LastOf(log, at, {"set"}, i)
                               /\ log[i].meta.new \in {Redacted, row.value}
    \/ /\ row = NoRow
       /\ \E i \in DOMAIN log : /\ LastOf(log, at, {"set", "delete"}, i)
                               /\ log[i].action = "delete"
LogOK(log) ==
    /\ log \in Seq(Range(log))
    /\ \A i \in DOMAIN log : LET a == log[i] IN
          /\ a.action \in {"set", "delete"} => ValueAddress(a.at)
          /\ a.action # "provision" => a.feature = FeatureAt(a.at) /\ a.env = EnvAt(a.at)
ReqOK(q) ==
    /\ DOMAIN q = DOMAIN Waiting
    /\ q.todo \in Seq(Range(q.todo))
    /\ \A i \in DOMAIN q.todo : ItemOK(q.todo[i])
    /\ q.pc = "write" => q.todo # <<>>
    /\ LogOK(q.audits)
    /\ \A i \in DOMAIN q.audits : q.audits[i].action = "set" => q.audits[i].at \in DOMAIN q.writes
    /\ \A at \in DOMAIN q.writes :
          \/ /\ ValueAddress(at) /\ q.writes[at] \in ConfigRow \cup {NoRow}
             /\ Tells(q.audits, at, q.writes[at])
          \/ /\ SwitchAddress(at)
             /\ q.writes[at] # NoRow => About(q.audits, at, {"disable"}) # {}
\* The log tells the rows of a table, and of those that are gone their end.
Told(log, name, table) ==
    /\ \A k \in DOMAIN table : table[k] \in ConfigRow /\ Tells(log, <<name, k>>, table[k])
    /\ \A n \in DOMAIN log :
          /\ log[n].action \in {"set", "delete"} /\ log[n].at[1] = name
          /\ log[n].at[2] \notin DOMAIN table
          => Tells(log, log[n].at, NoRow)
Explained(log, off) ==
    \A k \in off : k = <<k[1], k[2]>> /\ About(log, <<"off", k>>, {"disable"}) # {}
ConfigInv ==
    /\ req = [r \in Requests |-> req[r]] /\ \A r \in Requests : ReqOK(req[r])
    /\ nextId \in Nat
    /\ LogOK(audits)
    /\ Told(audits, "global", globalConfig) /\ Told(audits, "env", envConfig)
    /\ Explained(audits, disabledFeatures)

\* What makes the next one inductive: nobody assigns, an environment has its
\* tenant, and a stored value is a row under its environment and its key.
ProvisionedInv ==
    /\ featureData = InitData /\ featureAssignments = InitAssignments
    /\ \A e \in DOMAIN environments : TenantOf(e) \in tenants
    /\ \A k \in DOMAIN environmentValues :
          k = <<k[1], k[2]>> /\ environmentValues[k] # NoRow

\* No assignment asks for a label with the value "": Go copies of the match take
\* an absent label for one, SQL does not, and no handler refuses it.
TargetsHaveValues ==
    \A a \in Range(InitAssigned) : \A k \in DOMAIN a[2] : a[2][k] # EmptyValue

\* The pages that show configuration (one key over all environments, all keys
\* of a feature in an environment, the global configuration) show, for every key
\* the environment takes and the last where it has no value of its own, the value
\* the reconcile loop will render, in every committed state; the page of an
\* environment lists the values that templates are given there, and the REST API
\* names its project as that page does while secrets are masked, or not at all
\* when it is one.
PagesShowWhatIsRendered ==
  /\ \A e \in DOMAIN environments :
        LET shown == ListEnvironmentValuesForEnvironment(e, TRUE)
            given == buildEnvValues(environments, environmentValues, e).Env
            masked == ListEnvironmentValuesForEnvironment(e, FALSE)
            open == /\ ProjectKey \in DOMAIN masked
                    /\ ~environmentValues[<<e, ProjectKey>>].secret
        IN  /\ DOMAIN given = DOMAIN shown \cup ReservedKeys
            /\ \A k \in DOMAIN shown : given[k] = shown[k]
            /\ {r.project : r \in {x \in GetTenants[TenantOf(e)] : x.env = e}} =
                  {IF open THEN masked[ProjectKey] ELSE NoRow}
  /\ \A f \in FeatureNames : \A e \in featureEnvironments(f) :
        LET chart == FeatureForEnvironment(e, f)
            keys == configIncludeKeys(chart, environments[e].kind)
            merged == mergeConfigRows(buildGlobalConfigMap(globalConfig, f),
                                      buildEnvConfigMap(envConfig, e, f), keys)
            items == loadFeatureConfigItems(chart, e)
            shared == loadGlobalConfigItems(FeatureByName(f))
            Value(k) == IF k \in DOMAIN merged THEN merged[k].value ELSE HelmDefault
        IN  \A k \in keys : /\ compareKeyAcrossEnvs(f, k)[e] = Value(k)
                            /\ items[k].value = Value(k)
                            /\ (k \in DOMAIN shared /\ <<e, f, k>> \notin DOMAIN envConfig)
                                  => shared[k].value = Value(k)
=============================================================================
