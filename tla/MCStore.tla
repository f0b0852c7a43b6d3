------------------------------ MODULE MCStore -------------------------------
(***************************************************************************)
(* Every way of resolving a store, with credentials files of up to         *)
(* MaxLines lines; then a bucket with the location of the pass, which has  *)
(* a prefix or not, one whose prefix begins alike and one whose prefix is  *)
(* that of the ledger's key.                                               *)
(***************************************************************************)
EXTENDS ObjectStore

MCLines == {Header(s) : s \in {"", "default", "prod"}}
             \cup {Assign(k) : k \in CredKeys} \cup {Unset("aws_secret_access_key"), Ignored}

Velero == <<"velero">>
Location(url, bkt, prefix) ==
  [s3Url |-> url, ObjectStorage |-> [Bucket |-> bkt, Prefix |-> prefix]]

Minio == Url("http", "minio")
Input(role, location, override, policyRef, locationRef, profile) ==
  [role |-> role, location |-> location, override |-> override,
   policyRef |-> policyRef, locationRef |-> locationRef, profile |-> profile]

Good == Location(Minio, "b", <<"velero", "/">>)

\* Two secrets to choose from and two profiles; the sources that stop early;
\* the destination's flags.
MCInputs ==
  {Input("source", Good, NoUrl, "file", "file", ""), Input("source", Good, NoUrl, Nil, "file", "lab"),
   Input("source", Good, NoUrl, Nil, "empty", ""), Input("source", Good, NoUrl, "error", "file", ""),
   Input("source", Nil, NoUrl, Nil, Nil, ""),
   Input("source", [Good EXCEPT !.ObjectStorage = Nil], NoUrl, Nil, Nil, ""),
   Input("source", Location(NoUrl, "b", Velero), NoUrl, Nil, Nil, ""),
   Input("source", Location(NoUrl, "b", <<>>), Url("https", "minio"), Nil, Nil, ""),
   Input("source", Location(Url("https", ""), "", Velero), NoUrl, Nil, Nil, ""),
   Input("destination", Location(NoUrl, "b", Velero), NoUrl, Nil, Nil, ""),
   Input("destination", Location(Url("", "minio"), "b", Velero), NoUrl, Nil, "empty", ""),
   Input("destination", Location(Url("", "minio"), "b", Velero), NoUrl, Nil, Nil, "")}

MCOtherPrefixes == {<<"velero", "-2">>, <<"snapback">>}

Dir(parts) == parts \o <<"/">>
BackupDir(name) == <<"backups", "/">> \o Dir(name)
MCRelKeys == {BackupDir(<<"b1">>) \o <<"meta">>, BackupDir(<<"b1", "-2">>) \o <<"meta">>,
              <<"/", "kopia", "/", "pack">>}
MCListPrefixes == {BackupDir(<<"b1">>), BackupDir(<<"b1", "-2">>), Dir(<<"kopia">>), Dir(<<"restic">>)}
MCLedgerKey == <<"snapback", "/", "ledger", "/", "default">>

ASSUME LayoutAssumption == Separated /\ KeysOK
=============================================================================
