-------------------------- MODULE EvidenceProvider --------------------------
(***************************************************************************)
(* Evidence that comes from a provider outside AiNIR.                      *)
(*                                                                         *)
(* An issuer writes a bundle file of records: each says that one claim of  *)
(* one draft is warranted, for how long, and when it was last known not to *)
(* be revoked.  A host loads the bundle into a provider, asks it about a   *)
(* claim of the draft at an evaluation time of the host's choosing, and    *)
(* then validates the answer itself, with keys of its own, since neither   *)
(* the provider nor what it says of itself is trusted.                     *)
(*                                                                         *)
(* `evidence resolve` reads the bundle file twice, once to find the kind   *)
(* of provider and the id of the key and once into the provider; a program *)
(* that uses the library may keep provider, request and answer and combine *)
(* them later.  Meanwhile the issuer replaces the bundle and revokes the   *)
(* evidence, others edit the bundle by hand, and the draft changes.        *)
(*                                                                         *)
(* An artifact names another by a hash, so a record here stands for its    *)
(* hash.  One provider; what the policy lists apart from the issuer (kinds *)
(* of evidence and producer, versions) is taken with the issuer's id.      *)
(***************************************************************************)
EXTENDS Integers, FiniteSets

CONSTANTS
    Drafts,        \* [raw, payload, statement, evidence]: contents of the draft file
    FirstDraft,    \* the draft file to begin with
    Policies,      \* provider policies a host uses
    Sources, Modes,   \* kinds of bundle and of binding the issuer uses
    Issuer,        \* the issuer's id
    KeyIds,        \* ids of keys
    HostKey, OtherKey,   \* keys: the issuer's, which the host has, and another
    Lifetime,      \* how long the issuer's records are valid
    Score,         \* their reliability
    None,
    MaxTime, MaxEvaluationTime, MaxPublished, MaxEdits   \* bounds

ASSUME TimeAssumption == MaxTime \in Nat /\ Lifetime \in Nat \ {0} /\ Score \in Nat
ASSUME BoundsAssumption == {MaxEvaluationTime, MaxPublished, MaxEdits} \subseteq Nat
ASSUME KeyAssumption == HostKey # OtherKey /\ None \notin KeyIds
ASSUME SourcesAssumption == Sources \subseteq {"fixture", "file", "signed_bundle"}
ASSUME PoliciesAssumption == \A p \in Policies : p.maxAge \in Int
(* A file is parsed to one payload. *)
ASSUME DraftsAssumption ==
    /\ FirstDraft \in Drafts
    /\ \A d, e \in Drafts : d.raw = e.raw => d.payload = e.payload

VARIABLES
    now,           \* the time
    revokedAt,     \* when the issuer revoked its evidence
    issued,        \* history: [record, draft, at], what the issuer issued
    bundleFile, draftFile,   \* contents of the files
    keys,          \* key id |-> key, the host's
    opened,        \* the bundle as read first, while a provider is made
    provider,      \* the provider the host holds
    request, resolution,     \* the last question and the last answer
    report,        \* the last validation report, None while another answer is sought
    edits          \* bound: replacements of the files by others

vars == <<now, revokedAt, issued, bundleFile, draftFile, keys, opened,
          provider, request, resolution, report, edits>>

Time == 0..MaxTime

-----------------------------------------------------------------------------
(* What the issuer writes.                                                 *)

(* The record binds the draft as a file, as a payload, as either or not. *)
Record(d, source, mode) ==
    [id |-> d.evidence, source |-> source, issuer |-> Issuer,
     statement |-> d.statement, mode |-> mode,
     raw |-> IF mode \in {"raw", "raw_or_canonical"} THEN d.raw ELSE None,
     canonical |-> IF mode \in {"canonical", "raw_or_canonical"} THEN d.payload ELSE None,
     from |-> now, until |-> now + Lifetime,
     revoked |-> revokedAt # None, checkedAt |-> now,
     score |-> Score, minimum |-> Score, sealed |-> TRUE]

(* The hash of a bundle leaves its signature out, and the signature is     *)
(* over the hash.                                                          *)
Hash(source, records) == [source |-> source, records |-> records]

Bundle(source, records) ==
    [source |-> source, records |-> records, sha |-> Hash(source, records), signature |-> None]

Sign(b, id, key) == [b EXCEPT !.signature = [keyId |-> id, key |-> key, sha |-> b.sha]]

(* The record as someone brings it up to date who is not the issuer. *)
Refreshed(r) == [r EXCEPT !.revoked = FALSE, !.checkedAt = now, !.from = now, !.until = now + Lifetime]

-----------------------------------------------------------------------------
(* Faulty variant: any bundle signed with the key passes, changed or not. *)
SignatureOfKey(b, ks) ==
    IF b.signature = None THEN "not_present"
    ELSE IF b.signature.keyId = None THEN "failed"
    ELSE IF b.signature.keyId \notin DOMAIN ks THEN "unknown_key"
    ELSE IF b.signature.key = ks[b.signature.keyId] THEN "verified" ELSE "failed"

(* A signature without a proper key id stands for every malformed one. *)
SignatureOf(b, ks) ==
    IF b.signature = None THEN "not_present"
    ELSE IF b.signature.keyId = None THEN "failed"
    ELSE IF b.signature.keyId \notin DOMAIN ks THEN "unknown_key"
    ELSE IF b.signature.key = ks[b.signature.keyId] /\ b.signature.sha = b.sha
      THEN "verified" ELSE "failed"

KeyIdOf(b) == IF b.signature = None THEN None ELSE b.signature.keyId

(* An unsigned fixture needs no signature. *)
StatusOf(b, ks) ==
    IF b.signature = None /\ b.source = "fixture" THEN "not_applicable" ELSE SignatureOf(b, ks)

ValidBundle(b, ks, required) ==
    /\ b.records # {}
    /\ \A r \in b.records : r.sealed /\ r.source = b.source
    /\ \A r, s \in b.records : r.id = s.id => r = s
    /\ b.sha = Hash(b.source, b.records)
    /\ SignatureOf(b, ks) \in
         IF required THEN {"verified"} ELSE {"not_present", "unknown_key", "verified"}

(* What a provider makes of a bundle when it is loaded, and keeps. *)
Loaded(b, ks, required) ==
    [bundle |-> b, status |-> StatusOf(b, ks), keyId |-> KeyIdOf(b),
     valid |-> ValidBundle(b, ks, required)]

(* The provider's answer. *)
Resolve(p, q) ==
    LET found == {r \in p.bundle.records : r.id = q.evidence}
        status == IF ~p.valid THEN "provider_error"
                  ELSE IF found = {} THEN "not_found" ELSE "resolved"
    IN  [request |-> q, status |-> status, source |-> p.bundle.source, bundle |-> p.bundle.sha,
         signature |-> p.status, keyId |-> p.keyId,
         record |-> IF status = "resolved" THEN CHOOSE r \in found : TRUE ELSE None]

(* The question about the draft's claim. *)
Request(d, at) ==
    [evidence |-> d.evidence, statement |-> d.statement, raw |-> d.raw,
     canonical |-> d.payload, at |-> at]

-----------------------------------------------------------------------------
(* Faulty variant: an age of zero passes for "no limit". *)
ValidPolicyOfAnyAge(p) == p.sealed /\ (p.signed => p.keyIds # {})

ValidPolicy(p) ==
    /\ p.sealed
    /\ p.maxAge >= 1
    /\ p.signed => p.keyIds # {}

(* Faulty variant: the claim's statement binds well enough. *)
SubjectBoundByStatement(r, q, p) == TRUE

(* The record is about the draft the question is about. *)
SubjectBound(r, q, p) ==
    \/ r.mode \in {"raw", "raw_or_canonical"} /\ r.raw # None /\ r.raw = q.raw
    \/ /\ r.mode \in {"canonical", "raw_or_canonical"}
       /\ r.canonical # None /\ r.canonical = q.canonical
    \/ r.mode \notin {"raw", "canonical", "raw_or_canonical"} /\ ~p.bound

(* Faulty variant: a check of any age is fresh. *)
NotRevokedEver(r, q, p) == p.active => ~r.revoked /\ r.checkedAt <= q.at

(* The record was not revoked when last checked, not after the evaluation  *)
(* time and at most maxAge before it.                                      *)
NotRevoked(r, q, p) ==
    /\ r.checkedAt <= q.at
    /\ p.active => ~r.revoked /\ q.at - r.checkedAt <= p.maxAge

(* The record warrants the claim at the evaluation time. *)
Warrants(r, q, p) ==
    /\ r.sealed
    /\ r.id = q.evidence
    /\ r.issuer \in p.issuers
    /\ r.statement = q.statement
    /\ SubjectBound(r, q, p)
    /\ r.from < r.until /\ r.from <= q.at /\ q.at < r.until
    /\ NotRevoked(r, q, p)
    /\ r.score >= r.minimum /\ r.score >= p.minimum

(* The answer is of this bundle, and its record the only one there with    *)
(* the id asked for.                                                       *)
AnsweredFrom(a, b, q) ==
    /\ a.source = b.source
    /\ a.bundle = b.sha
    /\ a.record # None
    /\ {r \in b.records : r.id = q.evidence} = {a.record}

(* The host's own validation of an answer.  What the provider says of its  *)
(* bundle and signature must be what the host finds with its own keys.     *)
Accepts(q, a, p, pr, ks) ==
    /\ ValidPolicy(p)
    /\ a.request = q
    /\ a.source \in p.sources
    /\ p.signed => a.signature = "verified" /\ a.keyId \in p.keyIds
    /\ ValidBundle(pr.bundle, ks, p.signed)
    /\ pr.valid
    /\ a.signature = StatusOf(pr.bundle, ks)
    /\ a.keyId = KeyIdOf(pr.bundle)
    /\ AnsweredFrom(a, pr.bundle, q)
    /\ a.status = "resolved"
    /\ a.record.source = a.source
    /\ Warrants(a.record, q, p)

Report(q, a, p, pr, ks) ==
    [accepted |-> Accepts(q, a, p, pr, ks), request |-> q, policy |-> p, record |-> a.record,
     bundle |-> a.bundle, signature |-> StatusOf(pr.bundle, ks)]

-----------------------------------------------------------------------------
NoKeys == [i \in {} |-> HostKey]

Init ==
    /\ now = 0 /\ revokedAt = None /\ issued = {}
    /\ bundleFile = None /\ draftFile = FirstDraft
    /\ keys = NoKeys
    /\ opened = None /\ provider = None /\ request = None /\ resolution = None /\ report = None
    /\ edits = 0

host == <<keys, opened, provider, request, resolution, report>>

Tick ==
    /\ now < MaxTime
    /\ now' = now + 1
    /\ UNCHANGED <<revokedAt, issued, bundleFile, draftFile, host, edits>>

(* The issuer issues a record about the draft as it is now and replaces    *)
(* the bundle with a new one.                                              *)
Publish(source, mode, id) ==
    LET r == Record(draftFile, source, mode)
        b == Bundle(source, {r})
    IN  /\ Cardinality(issued) < MaxPublished
        /\ issued' = issued \cup {[record |-> r, draft |-> draftFile, at |-> now]}
        /\ bundleFile' = IF source = "signed_bundle" THEN Sign(b, id, HostKey) ELSE b
        /\ UNCHANGED <<now, revokedAt, draftFile, host, edits>>

Revoke ==
    /\ revokedAt = None /\ issued # {}
    /\ revokedAt' = now
    /\ UNCHANGED <<now, issued, bundleFile, draftFile, host, edits>>

(* Someone who does not have the key edits the bundle: refreshes a record  *)
(* or adds the refreshed one, computes the bundle's hash again or not, and *)
(* leaves the signature, spoils it or signs with another key.              *)
EditBundle ==
    /\ edits < MaxEdits /\ bundleFile # None
    /\ \E r \in bundleFile.records, add, reseal \in BOOLEAN, how \in {"kept", "spoilt", "other"} :
          LET rs == IF add THEN bundleFile.records \cup {Refreshed(r)} ELSE {Refreshed(r)}
              b == [bundleFile EXCEPT !.records = rs,
                                      !.sha = IF reseal THEN Hash(bundleFile.source, rs) ELSE @]
          IN  bundleFile' =
                CASE how = "kept" -> b
                  [] how = "spoilt" -> Sign(b, None, OtherKey)
                  [] how = "other" -> Sign(b, CHOOSE i \in KeyIds : TRUE, OtherKey)
    /\ edits' = edits + 1
    /\ UNCHANGED <<now, revokedAt, issued, draftFile, host>>

(* Someone makes an unsigned bundle of another kind out of the records,    *)
(* refreshed or not.                                                       *)
Repackage(source) ==
    /\ edits < MaxEdits /\ bundleFile # None
    /\ \E refresh \in BOOLEAN :
          bundleFile' = Bundle(source, {[(IF refresh THEN Refreshed(r) ELSE r) EXCEPT !.source = source] :
                                          r \in bundleFile.records})
    /\ edits' = edits + 1
    /\ UNCHANGED <<now, revokedAt, issued, draftFile, host>>

EditDraft ==
    /\ edits < MaxEdits
    /\ \E d \in Drafts \ {draftFile} : draftFile' = d
    /\ edits' = edits + 1
    /\ UNCHANGED <<now, revokedAt, issued, bundleFile, host>>

-----------------------------------------------------------------------------
(* The host reads the bundle, for the kind of provider and the key: the    *)
(* key file holds the key, the bundle its id.  A program that uses the     *)
(* library has its keys already.                                           *)
Open ==
    /\ bundleFile # None
    /\ opened' = bundleFile
    /\ \/ keys' = NoKeys
       \/ keys' = [i \in KeyIds |-> HostKey]
       \/ /\ KeyIdOf(bundleFile) # None
          /\ keys' = [i \in {KeyIdOf(bundleFile)} |-> HostKey]
    /\ provider' = None /\ report' = None
    /\ UNCHANGED <<now, revokedAt, issued, bundleFile, draftFile, request, resolution, edits>>

(* The provider is made.  A fixture is the bundle as read; the others read *)
(* the file again, and it must be of their kind.                           *)
Load ==
    /\ opened # None
    /\ opened' = None
    /\ provider' =
         CASE opened.source = "fixture" -> Loaded(opened, NoKeys, FALSE)
           [] opened.source = "file" ->
                IF bundleFile.source = "file" THEN Loaded(bundleFile, NoKeys, FALSE) ELSE None
           [] opened.source = "signed_bundle" ->
                IF bundleFile.source = "signed_bundle" /\ keys # NoKeys
                  THEN Loaded(bundleFile, keys, TRUE) ELSE None
    /\ UNCHANGED <<now, revokedAt, issued, bundleFile, draftFile, keys, request, resolution, report, edits>>

(* The host loads the draft and asks about its claim, as of some time. *)
Ask(at) ==
    /\ provider # None
    /\ request' = Request(draftFile, at)
    /\ resolution' = Resolve(provider, request')
    /\ report' = None
    /\ UNCHANGED <<now, revokedAt, issued, bundleFile, draftFile, keys, opened, provider, edits>>

(* The host asks a provider of someone else's making, which answers with   *)
(* some record and says that all is well.                                  *)
AskAnother(at) ==
    /\ provider = None /\ opened = None /\ bundleFile # None
    /\ request' = Request(draftFile, at)
    /\ provider' = [bundle |-> bundleFile, status |-> "verified",
                    keyId |-> KeyIdOf(bundleFile), valid |-> TRUE]
    /\ \E r \in bundleFile.records :
          \E t \in {r, Refreshed(r)} :
             resolution' = [Resolve(provider', request') EXCEPT !.status = "resolved", !.record = t]
    /\ keys' \in {NoKeys, [i \in KeyIds |-> HostKey]}
    /\ report' = None
    /\ UNCHANGED <<now, revokedAt, issued, bundleFile, draftFile, opened, edits>>

(* The host validates the answer it holds against the provider it holds. *)
Validate(p) ==
    /\ provider # None /\ resolution # None
    /\ report' = Report(request, resolution, p, provider, keys)
    /\ UNCHANGED <<now, revokedAt, issued, bundleFile, draftFile, keys, opened, provider,
                   request, resolution, edits>>

Next ==
    \/ Tick \/ Revoke \/ EditBundle \/ EditDraft
    \/ \E source \in {"file", "fixture"} : Repackage(source)
    \/ \E source \in Sources, mode \in Modes, id \in KeyIds : Publish(source, mode, id)
    \/ Open \/ Load
    \/ \E at \in 0..MaxEvaluationTime : Ask(at) \/ AskAnother(at)
    \/ \E p \in Policies : Validate(p)

Spec == Init /\ [][Next]_vars

-----------------------------------------------------------------------------
(* Properties.                                                             *)

Accepted == report # None /\ report.accepted

(* Types.  The answer a host holds is to the question it holds, and a      *)
(* report accepts only under a policy that limits the age of revocation    *)
(* checks.                                                                 *)
TypeOK ==
    /\ now \in Time
    /\ revokedAt \in Time \cup {None}
    /\ draftFile \in Drafts
    /\ \A i \in DOMAIN keys : i \in KeyIds /\ keys[i] = HostKey
    /\ \A i \in issued : i.draft \in Drafts /\ i.at \in Time
    /\ resolution # None => resolution.request = request
    /\ Accepted => /\ report.policy \in Policies
                   /\ report.policy.maxAge \in Nat \ {0}
    /\ edits \in 0..MaxEdits

(* What is accepted as signed was issued: an accepted report that calls    *)
(* the signature verified, or whose policy wants it so, is about a record  *)
(* the issuer issued, no later than the evaluation time, and that is still *)
(* valid then.  Whoever edits the bundle between the two times that it is  *)
(* read, and whatever a provider says of itself, is found out.             *)
SignedRecordsWereIssued ==
    Accepted /\ (report.signature = "verified" \/ report.policy.signed) =>
        \E i \in issued : /\ i.record = report.record
                          /\ i.at <= report.request.at
                          /\ report.request.at < i.at + Lifetime

(* Revoked evidence is accepted, at most, as of times within the policy's  *)
(* age of the moment it was revoked: an issuer that revokes can count on   *)
(* it, whichever older bundle a host still holds.                          *)
RevocationReachesHosts ==
    Accepted /\ report.policy.signed /\ report.policy.active /\ revokedAt # None =>
        report.request.at <= revokedAt + report.policy.maxAge

(* Evidence is about the draft: under a policy that wants the draft bound, *)
(* a signed record is accepted only for a draft with the payload the       *)
(* issuer saw, and for the same file if the record binds the file.         *)
EvidenceIsAboutTheDraft ==
    Accepted /\ report.policy.signed /\ report.policy.bound =>
        \E i \in issued :
            /\ i.record = report.record
            /\ i.draft.payload = report.request.canonical
            /\ report.record.mode = "raw" => i.draft.raw = report.request.raw
=============================================================================
