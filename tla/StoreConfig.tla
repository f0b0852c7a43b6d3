---------------------------- MODULE StoreConfig -----------------------------
(***************************************************************************)
(* How a pass comes by its object store: resolveStore on the source, from  *)
(* the storage location, the policy and a credentials secret;              *)
(* buildImportOptions on the destination, from flags and a credentials     *)
(* file; ParseAWSCredentials and pickProfile; objstore.New.                *)
(*                                                                         *)
(* A line of the credentials file is a header, an assignment or nothing    *)
(* (blank, comment, no "="); a value is the number of its line, so that it *)
(* is known where a credential comes from. Region, path style and the TLS  *)
(* switches, which are copied and decide nothing, are left out.            *)
(***************************************************************************)
EXTENDS Integers, Sequences, FiniteSets, FiniteSetsExt

CONSTANTS
  Inputs,     \* what a pass may find: records of the kind that InputOK states
  Lines,      \* the lines a credentials file may have
  MaxLines,   \* bound on its length
  Nil

CredKeys == {"aws_access_key_id", "aws_secret_access_key", "aws_session_token", "other"}
Header(s) == [kind |-> "header", name |-> s]
Assign(k) == [kind |-> "assign", name |-> k]
Unset(k)  == [kind |-> "unset", name |-> k]      \* an assignment of nothing
Ignored   == [kind |-> "ignored", name |-> ""]

\* Map f with k mapped to v.
With(f, k, v) == [x \in DOMAIN f \cup {k} |-> IF x = k THEN v ELSE f[x]]

\* An endpoint: scheme and host, either of them possibly empty.
Url(scheme, host) == [scheme |-> scheme, host |-> host]
NoUrl == Url("", "")

\* The fields of an input: the location (or the flags of the destination), the
\* overrides of the policy, and what reading the secret of either gives (Nil
\* for no reference, or one without a name).
Reads == {"error", "empty", "file"}
InputOK(i) ==
  /\ i.role \in {"source", "destination"}
  /\ {i.policyRef, i.locationRef} \subseteq Reads \cup {Nil}
  /\ i.role = "destination" => i.location # Nil /\ i.location.ObjectStorage # Nil

ASSUME InputAssumption == MaxLines \in Nat /\ \A i \in Inputs : InputOK(i)

VARIABLES
  input,      \* the objects this pass reads
  pc,         \* "resolve", "credentials", "scan", "new", "open" or "failed"
  err,        \* why it failed
  cfg,        \* objstore.Config: [Endpoint, Bucket, Prefix, creds, from]
  file,       \* the lines scanned so far
  sections, current

configVars == <<input, pc, err, cfg, file, sections, current>>

SectionNames == {""} \cup {l.name : l \in {m \in Lines : m.kind = "header"}}
NoSections == [s \in SectionNames |-> <<>>]

Resolving ==
  /\ input \in Inputs /\ pc = "resolve" /\ err = "" /\ cfg = Nil
  /\ file = <<>> /\ sections = NoSections /\ current = ""

Fail(why) == pc' = "failed" /\ err' = why
Go(label) == pc' = label /\ UNCHANGED err

-----------------------------------------------------------------------------
\* What stops resolveStore and buildImportOptions at once.
LocationMissing == input.location = Nil \/ input.location.ObjectStorage = Nil
FlagsMissing == input.location.s3Url = NoUrl \/ input.location.ObjectStorage.Bucket = ""
Unusable == IF input.role = "source" THEN LocationMissing ELSE FlagsMissing

\* The location or the flags, and what the policy overrides.
Resolve ==
  /\ pc = "resolve"
  /\ IF Unusable
       THEN Fail("location") /\ UNCHANGED cfg
       ELSE /\ Go("credentials")
            /\ cfg' = [Endpoint |-> IF input.override # NoUrl THEN input.override
                                                              ELSE input.location.s3Url,
                       Bucket |-> input.location.ObjectStorage.Bucket,
                       Prefix |-> input.location.ObjectStorage.Prefix,
                       creds |-> Nil, from |-> Nil]
  /\ UNCHANGED <<input, file, sections, current>>

\* The policy's reference wins over the location's.
CredRef == IF input.policyRef # Nil THEN "policy"
           ELSE IF input.locationRef # Nil THEN "location" ELSE Nil

\* getSecretKey, or ReadFile.
Body == IF CredRef = "policy" THEN input.policyRef ELSE input.locationRef

\* The destination parses an empty file, which the parser refuses; the source
\* goes on without credentials.
ParsesEmpty == input.role = "destination"

GetCredentials ==
  /\ pc = "credentials"
  /\ \/ Body = "error" /\ Fail("secret")
     \/ Go("new") /\ (Body = Nil \/ (Body = "empty" /\ ~ParsesEmpty))
     \/ Go("scan") /\ (Body = "file" \/ (Body = "empty" /\ ParsesEmpty))
  /\ cfg' = [cfg EXCEPT !.from = CredRef]
  /\ UNCHANGED <<input, file, sections, current>>

ValueAt(f, i) == IF f[i].kind = "assign" THEN i ELSE 0

\* One turn of the scanner's loop. An empty file has no line.
Scan(l) ==
  /\ pc = "scan" /\ Body = "file" /\ Len(file) < MaxLines
  /\ file' = Append(file, l)
  /\ current' = IF l.kind = "header" THEN l.name ELSE current
  /\ sections' = IF l.kind \in {"assign", "unset"}
                   THEN [sections EXCEPT ![current] = With(@, l.name, ValueAt(file', Len(file')))]
                   ELSE sections
  /\ UNCHANGED <<input, pc, err, cfg>>

ScanError == pc = "scan" /\ Fail("scan") /\ UNCHANGED <<input, cfg, file, sections, current>>

Full(ss) == {s \in DOMAIN ss : ss[s] # <<>>}

\* pickProfile: the section it returns, as a set that is empty for nil. The
\* loop over the map meets the named sections in any order.
\* Mutant: the count of the named sections is not looked at.
pickProfileAny(ss, profile) ==
  IF profile \in Full(ss) THEN {ss[profile]}
  ELSE IF "" \in Full(ss) THEN {ss[""]} ELSE {ss[s] : s \in Full(ss)}

pickProfile(ss, profile) ==
  IF profile \in Full(ss) THEN {ss[profile]}
  ELSE IF "" \in Full(ss) THEN {ss[""]}
  ELSE LET only == {ss[s] : s \in Full(ss)} IN IF Cardinality(Full(ss)) = 1 THEN only ELSE {}

Profile == IF input.profile = "" THEN "default" ELSE input.profile
Value(kv, k) == IF k \in DOMAIN kv THEN kv[k] ELSE 0

\* The end of ParseAWSCredentials.
EndOfFile ==
  LET picked == pickProfile(sections, Profile)
      usable(kv) == /\ Value(kv, "aws_access_key_id") # 0
                    /\ Value(kv, "aws_secret_access_key") # 0
  IN  /\ pc = "scan"
      /\ \/ picked = {} /\ Fail("profile") /\ UNCHANGED cfg
         \/ \E kv \in picked : ~usable(kv) /\ Fail("keys") /\ UNCHANGED cfg
         \/ \E kv \in picked :
               /\ usable(kv) /\ Go("new")
               /\ cfg' = [cfg EXCEPT !.creds =
                    [k \in CredKeys \ {"other"} |-> Value(kv, k)]]
      /\ UNCHANGED <<input, file, sections, current>>

\* normalizeEndpoint: "https://" without a host is taken for a bare host.
normalizeEndpoint(url) ==
  IF url.scheme # "" /\ url.host # "" THEN [host |-> url.host, secure |-> url.scheme = "https"]
  ELSE [host |-> IF url.host = "" THEN url.scheme ELSE url.host, secure |-> FALSE]

\* objstore.New. The client library may refuse the host.
New ==
  LET host == normalizeEndpoint(cfg.Endpoint).host
  IN  /\ pc = "new"
      /\ \/ host = "" /\ Fail("endpoint")
         \/ host # "" /\ cfg.Bucket = "" /\ Fail("bucket")
         \/ host # "" /\ cfg.Bucket # "" /\ (Go("open") \/ Fail("client"))
      /\ UNCHANGED <<input, cfg, file, sections, current>>

ConfigStep ==
  \/ Resolve \/ GetCredentials \/ (\E l \in Lines : Scan(l)) \/ ScanError
  \/ EndOfFile \/ New

-----------------------------------------------------------------------------
(* The credentials of a file, read off its lines.                          *)

SectionAt(i) ==
  LET headers == {j \in 1..i : file[j].kind = "header"}
  IN  IF headers = {} THEN "" ELSE file[Max(headers)].name

In(s) == {i \in DOMAIN file : file[i].kind \in {"assign", "unset"} /\ SectionAt(i) = s}

LastOf(s, k) ==
  LET at == {i \in In(s) : file[i].name = k}
  IN  IF at = {} THEN 0 ELSE ValueAt(file, Max(at))

\* The profile that is asked for, else what precedes every header, else the
\* one section there is.
Candidates ==
  LET named == {s \in SectionNames : In(s) # {}}
  IN  IF Profile \in named THEN {Profile} ELSE IF "" \in named THEN {""} ELSE named

Parsed == IF Cardinality(Candidates) = 1
            THEN [k \in CredKeys \ {"other"} |-> LastOf(CHOOSE s \in Candidates : TRUE, k)] ELSE Nil

\* The two halves of a credential come from one section, that of the profile
\* asked for or the only one it can stand for, each from its last assignment
\* there, and from the policy's secret when the policy names one; a file is
\* refused only when it has no such pair. The order of a Go map, repeated
\* headers and keys before any header do not change that
\* (creds.go:22-24, 72-96; backupreplication_controller.go:276-296).
CredentialsOfOneProfile ==
  LET pair == /\ Parsed # Nil
              /\ Parsed["aws_access_key_id"] # 0 /\ Parsed["aws_secret_access_key"] # 0
  IN  /\ (pc = "new" /\ cfg.creds # Nil) =>
            /\ pair /\ cfg.creds = Parsed
            /\ input.policyRef # Nil => cfg.from = "policy"
      /\ (pc = "failed" /\ err \in {"profile", "keys"}) => ~pair
=============================================================================
