----------------------- MODULE EvidenceProviderProofs -----------------------
(***************************************************************************)
(* What EvidenceProvider promises a host and an issuer, for every set of   *)
(* drafts and policies, every bundle and every bound.                      *)
(*                                                                         *)
(* The argument follows the issuer's signature.  Nobody else makes one     *)
(* with the host's key, and it is over the hash of the bundle as issued,   *)
(* so wherever a bundle with such a signature has got to, that hash is of  *)
(* a single issued record (BundlesAreSigned).  A validation computes the   *)
(* hash of the records again.  What was issued is dated and about a draft  *)
(* (IssuedRecords), which is all that freshness and the binding need.      *)
(***************************************************************************)
EXTENDS EvidenceProvider, TLAPS

BundleFields == {"source", "records", "sha", "signature"}

(* A bundle of one of the kinds; a signature with the host's key is over   *)
(* one record among those of I.                                            *)
SignedOver(I, b) ==
    /\ DOMAIN b = BundleFields
    /\ b.source \in {"fixture", "file", "signed_bundle"}
    /\ b.signature # None =>
          /\ b.signature.keyId \in KeyIds \cup {None}
          /\ b.signature.key = HostKey =>
                \E i \in I, source \in Sources : b.signature.sha = Hash(source, {i.record})

BundlesAreSigned ==
    /\ bundleFile # None \/ opened # None => SignedOver(issued, bundleFile) /\ KeyIds # {}
    /\ opened # None => SignedOver(issued, opened)
    /\ provider # None => SignedOver(issued, provider.bundle)

(* An issued record is about its draft and is dated, and one that does not *)
(* say revoked is not younger than the revocation.                         *)
Dated(i, time, revocation) ==
    /\ i.draft \in Drafts /\ i.at \in Time /\ i.at <= time
    /\ i.record.from = i.at /\ i.record.checkedAt = i.at
    /\ i.record.until = i.at + Lifetime
    /\ i.record.raw # None => i.record.raw = i.draft.raw
    /\ i.record.canonical # None => i.record.canonical = i.draft.payload
    /\ revocation # None /\ ~i.record.revoked => i.at <= revocation

IssuedRecords == \A i \in issued : Dated(i, now, revokedAt)

RequestIsOfADraft ==
    resolution # None => \E d \in Drafts, at \in Nat : request = Request(d, at)

(* What an accepted report about a signed bundle rests on. *)
RestsOn(i, rep) ==
    /\ i.record = rep.record
    /\ i.at <= rep.request.at /\ rep.request.at < i.at + Lifetime
    /\ rep.policy.active =>
          ~rep.record.revoked /\ rep.request.at <= i.at + rep.policy.maxAge
    /\ rep.policy.bound =>
          /\ i.draft.payload = rep.request.canonical
          /\ rep.record.mode = "raw" => i.draft.raw = rep.request.raw

Founded(I, rep) ==
    rep # None /\ rep.accepted /\ (rep.signature = "verified" \/ rep.policy.signed) =>
        rep.request.at \in Nat /\ \E i \in I : RestsOn(i, rep)

IInv ==
    /\ TypeOK /\ IssuedRecords /\ BundlesAreSigned
    /\ RequestIsOfADraft /\ Founded(issued, report)

-----------------------------------------------------------------------------
(*                        Lemmas about the operators                       *)

(* A signature is verified only with the key, over the bundle's hash. *)
LEMMA VerifiedSignature ==
    ASSUME NEW b, NEW ks, SignatureOf(b, ks) = "verified"
    PROVE  /\ b.signature # None
           /\ b.signature.keyId \in DOMAIN ks
           /\ b.signature.key = ks[b.signature.keyId]
           /\ b.signature.sha = b.sha
BY DEF SignatureOf

(* A bundle that validates with a verified signature is an issued one. *)
LEMMA VerifiedBundleWasIssued ==
    ASSUME NEW I, NEW b, NEW ks, NEW required,
           SignedOver(I, b), ValidBundle(b, ks, required), SignatureOf(b, ks) = "verified",
           \A k \in DOMAIN ks : ks[k] = HostKey
    PROVE  \E i \in I : b.records = {i.record}
PROOF
<1>1. b.signature # None /\ b.signature.key = HostKey /\ b.signature.sha = b.sha
  BY VerifiedSignature
<1>2. PICK i \in I, source \in Sources : b.signature.sha = Hash(source, {i.record})
  BY <1>1 DEF SignedOver
<1>3. Hash(b.source, b.records) = Hash(source, {i.record})
  BY <1>1, <1>2 DEF ValidBundle
<1>4. b.records = {i.record}
  BY <1>3 DEF Hash
<1> QED BY <1>4

(* An issued record that warrants a claim is fresh, and about the draft. *)
LEMMA WarrantsWhatWasIssued ==
    ASSUME NEW i, NEW time, NEW revocation, Dated(i, time, revocation),
           NEW p \in Policies, NEW d \in Drafts, NEW at \in Nat,
           Warrants(i.record, Request(d, at), p)
    PROVE  /\ i.at <= at /\ at < i.at + Lifetime
           /\ p.active => ~i.record.revoked /\ at <= i.at + p.maxAge
           /\ p.bound => /\ i.draft.payload = d.payload
                         /\ i.record.mode = "raw" => i.draft.raw = d.raw
PROOF
<1>1. /\ i.draft \in Drafts /\ i.at \in Nat
      /\ i.record.from = i.at /\ i.record.until = i.at + Lifetime /\ i.record.checkedAt = i.at
  BY TimeAssumption DEF Dated, Time
<1>2. i.at <= at /\ at < i.at + Lifetime
  BY <1>1, TimeAssumption DEF Warrants, Request
<1>3. p.active => ~i.record.revoked /\ at <= i.at + p.maxAge
  BY <1>1, PoliciesAssumption DEF Warrants, NotRevoked, Request
<1>4. ASSUME p.bound
      PROVE  /\ i.draft.payload = d.payload
             /\ i.record.mode = "raw" => i.draft.raw = d.raw
  <2>1. SubjectBound(i.record, Request(d, at), p)
    BY DEF Warrants
  <2>2. \/ i.record.mode \in {"raw", "raw_or_canonical"} /\ i.draft.raw = d.raw
        \/ i.record.mode # "raw" /\ i.draft.payload = d.payload
    BY <1>4, <2>1 DEF SubjectBound, Request, Dated
  <2> QED BY <1>1, <2>2, DraftsAssumption
<1> QED BY <1>2, <1>3, <1>4

(* What holds of issued evidence keeps holding when more is issued and     *)
(* time passes.                                                            *)
LEMMA SignedOverMore ==
    ASSUME NEW I, NEW J, I \subseteq J, NEW b, SignedOver(I, b)
    PROVE  SignedOver(J, b)
BY DEF SignedOver

LEMMA FoundedOnMore ==
    ASSUME NEW I, NEW J, I \subseteq J, NEW rep, Founded(I, rep)
    PROVE  Founded(J, rep)
BY DEF Founded

(* Another key's signature, and another set of records, keep a bundle what *)
(* it is.                                                                  *)
LEMMA SignedByAnother ==
    ASSUME NEW I, NEW b, SignedOver(I, b), NEW id \in KeyIds \cup {None}
    PROVE  SignedOver(I, Sign(b, id, OtherKey))
BY KeyAssumption DEF SignedOver, Sign, BundleFields

LEMMA SignedWithOtherRecords ==
    ASSUME NEW I, NEW b, SignedOver(I, b), NEW rs, NEW sha
    PROVE  SignedOver(I, [b EXCEPT !.records = rs, !.sha = sha])
BY DEF SignedOver, BundleFields

-----------------------------------------------------------------------------
(*                           Type correctness                              *)

LEMMA InitIInv == Init => IInv
<1> SUFFICES ASSUME Init PROVE IInv
  OBVIOUS
<1>1. TypeOK
  BY TimeAssumption, BoundsAssumption, DraftsAssumption DEF Init, TypeOK, NoKeys, Accepted, Time
<1>2. IssuedRecords /\ BundlesAreSigned /\ RequestIsOfADraft /\ Founded(issued, report)
  BY DEF Init, IssuedRecords, BundlesAreSigned, RequestIsOfADraft, Founded
<1> QED BY <1>1, <1>2 DEF IInv

(* The keys a host has, and the ids it knows them by, after each step. *)
LEMMA KeysNext ==
    ASSUME IInv, [Next]_vars
    PROVE  \A i \in DOMAIN keys' : i \in KeyIds /\ keys'[i] = HostKey
<1>1. \A i \in DOMAIN keys : i \in KeyIds /\ keys[i] = HostKey
  BY DEF IInv, TypeOK
<1>2. CASE UNCHANGED keys
  BY <1>1, <1>2
<1>3. CASE Open
  <2>1. KeyIdOf(bundleFile) # None => KeyIdOf(bundleFile) \in KeyIds
    BY <1>3 DEF Open, KeyIdOf, IInv, BundlesAreSigned, SignedOver
  <2> QED BY <1>3, <2>1 DEF Open, NoKeys
<1>4. ASSUME NEW at, AskAnother(at)
      PROVE  \A i \in DOMAIN keys' : i \in KeyIds /\ keys'[i] = HostKey
  BY <1>4 DEF AskAnother, NoKeys
<1>5. \/ UNCHANGED keys \/ Open \/ \E at \in 0..MaxEvaluationTime : AskAnother(at)
  BY DEF Next, vars, host, Tick, Revoke, EditBundle, EditDraft, Repackage, Publish,
         Load, Ask, Validate
<1> QED BY <1>2, <1>3, <1>4, <1>5

(* Reports, questions and answers keep their types. *)
LEMMA ReportTypeNext ==
    ASSUME TypeOK, [Next]_vars
    PROVE  /\ resolution' # None => resolution'.request = request'
           /\ Accepted' => /\ report'.policy \in Policies
                           /\ report'.policy.maxAge \in Nat \ {0}
<1>1. ASSUME NEW at, Ask(at)
      PROVE  resolution'.request = request' /\ ~Accepted'
  BY <1>1 DEF Ask, Resolve, Accepted
<1>2. ASSUME NEW at, AskAnother(at)
      PROVE  resolution'.request = request' /\ ~Accepted'
  BY <1>2 DEF AskAnother, Resolve, Accepted
<1>3. ASSUME NEW p \in Policies, Validate(p), Accepted'
      PROVE  report'.policy \in Policies /\ report'.policy.maxAge \in Nat \ {0}
  <2>1. report'.policy = p /\ ValidPolicy(p)
    BY <1>3 DEF Validate, Report, Accepted, Accepts
  <2> QED BY <2>1, PoliciesAssumption DEF ValidPolicy
<1>4. CASE /\ UNCHANGED <<request, resolution>>
           /\ UNCHANGED report \/ report' = None
  BY <1>4 DEF TypeOK, Accepted
<1>5. \/ UNCHANGED <<request, resolution>> /\ (UNCHANGED report \/ report' = None)
      \/ \E at \in 0..MaxEvaluationTime : Ask(at) \/ AskAnother(at)
      \/ \E p \in Policies : Validate(p)
  BY DEF Next, vars, host, Tick, Revoke, EditBundle, EditDraft, Repackage, Publish,
         Open, Load
<1>6. ASSUME NEW p \in Policies, Validate(p)
      PROVE  resolution' # None => resolution'.request = request'
  BY <1>6 DEF Validate, TypeOK
<1> QED BY <1>1, <1>2, <1>3, <1>4, <1>5, <1>6

LEMMA TypeNext == IInv /\ [Next]_vars => TypeOK'
<1> SUFFICES ASSUME IInv, [Next]_vars PROVE TypeOK'
  OBVIOUS
<1>1. TypeOK
  BY DEF IInv
<1>2. now' \in Time /\ revokedAt' \in Time \cup {None} /\ draftFile' \in Drafts /\ edits' \in 0..MaxEdits
  <2>1. CASE UNCHANGED <<now, revokedAt, draftFile, edits>>
    BY <1>1, <2>1 DEF TypeOK
  <2>2. CASE Tick
    BY <1>1, <2>2, TimeAssumption DEF Tick, TypeOK, Time
  <2>3. CASE Revoke
    BY <1>1, <2>3 DEF Revoke, TypeOK
  <2>4. CASE EditBundle
    BY <1>1, <2>4, BoundsAssumption DEF EditBundle, TypeOK
  <2>5. CASE EditDraft
    BY <1>1, <2>5, BoundsAssumption DEF EditDraft, TypeOK
  <2>6. ASSUME NEW source, Repackage(source) PROVE UNCHANGED <<now, revokedAt, draftFile>> /\ edits' \in 0..MaxEdits
    BY <1>1, <2>6, BoundsAssumption DEF Repackage, TypeOK
  <2>7. \/ UNCHANGED <<now, revokedAt, draftFile, edits>> \/ Tick \/ Revoke \/ EditBundle \/ EditDraft
        \/ \E source \in {"file", "fixture"} : Repackage(source)
    BY DEF Next, vars, Publish, Open, Load, Ask, AskAnother, Validate
  <2> QED BY <1>1, <2>1, <2>2, <2>3, <2>4, <2>5, <2>6, <2>7 DEF TypeOK
<1>3. \A i \in issued' : i.draft \in Drafts /\ i.at \in Time
  <2>1. CASE UNCHANGED issued
    BY <1>1, <2>1 DEF TypeOK
  <2>2. ASSUME NEW source, NEW mode, NEW id, Publish(source, mode, id)
        PROVE  \A i \in issued' : i.draft \in Drafts /\ i.at \in Time
    BY <1>1, <2>2 DEF Publish, TypeOK
  <2>3. UNCHANGED issued \/ \E source \in Sources, mode \in Modes, id \in KeyIds : Publish(source, mode, id)
    BY DEF Next, vars, Tick, Revoke, EditBundle, EditDraft, Repackage, Open, Load, Ask, AskAnother, Validate
  <2> QED BY <2>1, <2>2, <2>3
<1>4. \A i \in DOMAIN keys' : i \in KeyIds /\ keys'[i] = HostKey
  BY KeysNext
<1> QED BY <1>1, <1>2, <1>3, <1>4, ReportTypeNext DEF TypeOK

-----------------------------------------------------------------------------
(*                    What was issued, and what is signed                  *)

LEMMA IssuedNext == IInv /\ [Next]_vars => IssuedRecords'
<1> SUFFICES ASSUME IInv, [Next]_vars PROVE IssuedRecords'
  OBVIOUS
<1>1. TypeOK /\ IssuedRecords /\ now \in Nat
  BY TimeAssumption DEF IInv, TypeOK, Time
<1>2. CASE UNCHANGED <<issued, now, revokedAt>>
  BY <1>1, <1>2 DEF IssuedRecords
<1>3. CASE Tick
  BY <1>1, <1>3, TimeAssumption DEF Tick, IssuedRecords, Dated, Time
<1>4. CASE Revoke
  BY <1>1, <1>4 DEF Revoke, IssuedRecords, Dated
<1>5. ASSUME NEW source, NEW mode, NEW id, Publish(source, mode, id)
      PROVE  IssuedRecords'
  <2> DEFINE new == [record |-> Record(draftFile, source, mode), draft |-> draftFile, at |-> now]
  <2> DEFINE r == Record(draftFile, source, mode)
  <2>1. /\ r.from = now /\ r.checkedAt = now /\ r.until = now + Lifetime
        /\ r.raw # None => r.raw = draftFile.raw
        /\ r.canonical # None => r.canonical = draftFile.payload
        /\ revokedAt # None => r.revoked
    BY DEF Record
  <2>2. new.record = r /\ new.draft = draftFile /\ new.at = now
    OBVIOUS
  <2> HIDE DEF r, new
  <2>3. Dated(new, now, revokedAt)
    BY <1>1, <2>1, <2>2 DEF Dated, TypeOK
  <2>4. issued' = issued \cup {new} /\ UNCHANGED <<now, revokedAt>>
    BY <1>5 DEF Publish, new, r
  <2> QED BY <1>1, <2>3, <2>4 DEF IssuedRecords
<1> QED BY <1>2, <1>3, <1>4, <1>5
        DEF Next, vars, EditBundle, EditDraft, Repackage, Open, Load, Ask, AskAnother, Validate

(* Evidence once issued stays issued. *)
LEMMA IssuedGrows == [Next]_vars => issued \subseteq issued'
BY DEF Next, vars, Tick, Revoke, EditBundle, EditDraft, Repackage, Publish, Open, Load,
       Ask, AskAnother, Validate

(* The bundle file, after someone without the key or the issuer wrote it. *)
LEMMA EditedBundleIsSigned ==
    ASSUME BundlesAreSigned, EditBundle
    PROVE  SignedOver(issued, bundleFile') /\ KeyIds # {}
PROOF
<1> PICK r \in bundleFile.records, add \in BOOLEAN, reseal \in BOOLEAN, how \in {"kept", "spoilt", "other"} :
      LET rs == IF add THEN bundleFile.records \cup {Refreshed(r)} ELSE {Refreshed(r)}
          b == [bundleFile EXCEPT !.records = rs,
                                  !.sha = IF reseal THEN Hash(bundleFile.source, rs) ELSE @]
      IN  bundleFile' =
            CASE how = "kept" -> b
              [] how = "spoilt" -> Sign(b, None, OtherKey)
              [] how = "other" -> Sign(b, CHOOSE i \in KeyIds : TRUE, OtherKey)
  BY DEF EditBundle
<1> DEFINE rs == IF add THEN bundleFile.records \cup {Refreshed(r)} ELSE {Refreshed(r)}
           sha == IF reseal THEN Hash(bundleFile.source, rs) ELSE bundleFile.sha
           b == [bundleFile EXCEPT !.records = rs, !.sha = sha]
           other == CHOOSE i \in KeyIds : TRUE
<1>1. SignedOver(issued, bundleFile) /\ KeyIds # {} /\ other \in KeyIds
  BY DEF EditBundle, BundlesAreSigned
<1>2. SignedOver(issued, b)
  BY <1>1, SignedWithOtherRecords
<1>3. SignedOver(issued, Sign(b, None, OtherKey)) /\ SignedOver(issued, Sign(b, other, OtherKey))
  BY <1>1, <1>2, SignedByAnother
<1> HIDE DEF other
<1>4. bundleFile' \in {b, Sign(b, None, OtherKey), Sign(b, other, OtherKey)}
  BY DEF other
<1> QED BY <1>1, <1>2, <1>3, <1>4

LEMMA PublishedBundleIsSigned ==
    ASSUME NEW source \in Sources, NEW mode, NEW id \in KeyIds, Publish(source, mode, id)
    PROVE  SignedOver(issued', bundleFile')
PROOF
<1> DEFINE r == Record(draftFile, source, mode)
           b == Bundle(source, {r})
<1>1. \E i \in issued' : i.record = r
  <2> DEFINE new == [record |-> r, draft |-> draftFile, at |-> now]
  <2>1. new \in issued' /\ new.record = r
    BY DEF Publish
  <2> HIDE DEF new
  <2> QED BY <2>1
<1>2. SignedOver(issued', b)
  BY SourcesAssumption DEF SignedOver, Bundle, BundleFields
<1>3. SignedOver(issued', Sign(b, id, HostKey))
  <2> HIDE DEF r
  <2> QED BY <1>1, <1>2 DEF SignedOver, Bundle, Sign, BundleFields
<1>4. bundleFile' \in {b, Sign(b, id, HostKey)}
  BY DEF Publish
<1> QED BY <1>2, <1>3, <1>4

LEMMA BundlesNext == IInv /\ [Next]_vars => BundlesAreSigned'
<1> SUFFICES ASSUME IInv, [Next]_vars PROVE BundlesAreSigned'
  OBVIOUS
<1>1. BundlesAreSigned
  BY DEF IInv
<1>2. \A b : SignedOver(issued, b) => SignedOver(issued', b)
  BY IssuedGrows, SignedOverMore
<1>3. bundleFile' # None \/ opened' # None => SignedOver(issued', bundleFile') /\ KeyIds # {}
  <2>1. CASE UNCHANGED bundleFile
    <3>1. opened' # None => opened # None \/ bundleFile # None
      BY DEF Next, vars, host, Tick, Revoke, EditBundle, EditDraft, Repackage, Publish,
             Open, Load, Ask, AskAnother, Validate
    <3> QED BY <1>1, <1>2, <2>1, <3>1 DEF BundlesAreSigned
  <2>2. ASSUME NEW source \in Sources, NEW mode, NEW id \in KeyIds, Publish(source, mode, id)
        PROVE  SignedOver(issued', bundleFile') /\ KeyIds # {}
    BY <2>2, PublishedBundleIsSigned
  <2>3. CASE EditBundle
    BY <1>1, <1>2, <2>3, EditedBundleIsSigned
  <2>4. ASSUME NEW source \in {"file", "fixture"}, Repackage(source)
        PROVE  SignedOver(issued', bundleFile') /\ KeyIds # {}
    BY <1>1, <2>4 DEF Repackage, Bundle, SignedOver, BundleFields, BundlesAreSigned
  <2>5. \/ UNCHANGED bundleFile \/ EditBundle
        \/ \E source \in {"file", "fixture"} : Repackage(source)
        \/ \E source \in Sources, mode \in Modes, id \in KeyIds : Publish(source, mode, id)
    BY DEF Next, vars, Tick, Revoke, EditDraft, Open, Load, Ask, AskAnother, Validate
  <2> QED BY <2>1, <2>2, <2>3, <2>4, <2>5
<1>4. opened' # None => SignedOver(issued', opened')
  <2>1. UNCHANGED opened \/ opened' = None \/ (bundleFile # None /\ opened' = bundleFile)
    BY DEF Next, vars, host, Tick, Revoke, EditBundle, EditDraft, Repackage, Publish, Open, Load,
           Ask, AskAnother, Validate
  <2> QED BY <1>1, <1>2, <2>1 DEF BundlesAreSigned
<1>5. provider' # None => SignedOver(issued', provider'.bundle)
  <2>1. CASE UNCHANGED provider \/ provider' = None
    BY <1>1, <1>2, <2>1 DEF BundlesAreSigned
  <2>2. CASE Load /\ provider' # None
    <3>1. SignedOver(issued', opened) /\ SignedOver(issued', bundleFile)
      BY <1>1, <1>2, <2>2 DEF Load, BundlesAreSigned
    <3>2. opened.source \in {"fixture", "file", "signed_bundle"}
      BY <3>1 DEF SignedOver
    <3>3. provider'.bundle \in {opened, bundleFile}
      BY <2>2, <3>2 DEF Load, Loaded
    <3> QED BY <3>1, <3>3
  <2>3. ASSUME NEW at, AskAnother(at) PROVE SignedOver(issued', provider'.bundle)
    BY <1>1, <1>2, <2>3 DEF AskAnother, BundlesAreSigned
  <2>4. \/ UNCHANGED provider \/ provider' = None \/ Load
        \/ \E at \in 0..MaxEvaluationTime : AskAnother(at)
    BY DEF Next, vars, host, Tick, Revoke, EditBundle, EditDraft, Repackage, Publish, Open,
           Ask, Validate
  <2> QED BY <2>1, <2>2, <2>3, <2>4
<1> QED BY <1>3, <1>4, <1>5 DEF BundlesAreSigned

-----------------------------------------------------------------------------
(*                     Questions, answers and reports                      *)

LEMMA RequestNext == IInv /\ [Next]_vars => RequestIsOfADraft'
<1> SUFFICES ASSUME IInv, [Next]_vars PROVE RequestIsOfADraft'
  OBVIOUS
<1>1. CASE UNCHANGED <<request, resolution>>
  BY <1>1 DEF IInv, RequestIsOfADraft
<1>2. ASSUME NEW at \in 0..MaxEvaluationTime, request' = Request(draftFile, at)
      PROVE  RequestIsOfADraft'
  BY <1>2, BoundsAssumption DEF IInv, TypeOK, RequestIsOfADraft, Request
<1>3. \/ UNCHANGED <<request, resolution>>
      \/ \E at \in 0..MaxEvaluationTime : request' = Request(draftFile, at)
  BY DEF Next, vars, host, Tick, Revoke, EditBundle, EditDraft, Repackage, Publish, Open, Load,
         Ask, AskAnother, Validate
<1> QED BY <1>1, <1>2, <1>3

(* A validation that accepts a bundle as signed. *)
LEMMA ValidateIsFounded ==
    ASSUME IInv, NEW p \in Policies, Validate(p)
    PROVE  Founded(issued, report')
PROOF
<1> SUFFICES ASSUME Accepts(request, resolution, p, provider, keys),
                    StatusOf(provider.bundle, keys) = "verified" \/ p.signed
             PROVE  request.at \in Nat /\ \E i \in issued : RestsOn(i, report')
  BY DEF Founded, Validate, Report
<1> DEFINE b == provider.bundle
           r == resolution.record
<1>1. ValidBundle(b, keys, p.signed) /\ SignatureOf(b, keys) = "verified"
  BY DEF Accepts, StatusOf, ValidBundle
<1>2. PICK i \in issued : b.records = {i.record}
  BY <1>1, VerifiedBundleWasIssued DEF IInv, TypeOK, BundlesAreSigned, Validate
<1>3. r = i.record
  BY <1>2 DEF Accepts, AnsweredFrom
<1>4. PICK d \in Drafts, at \in Nat : request = Request(d, at)
  BY DEF IInv, RequestIsOfADraft, Validate
<1>5. Warrants(i.record, Request(d, at), p) /\ Dated(i, now, revokedAt)
  BY <1>3, <1>4 DEF Accepts, IInv, IssuedRecords
<1>6. /\ i.at <= at /\ at < i.at + Lifetime
      /\ p.active => ~i.record.revoked /\ at <= i.at + p.maxAge
      /\ p.bound => /\ i.draft.payload = d.payload
                    /\ i.record.mode = "raw" => i.draft.raw = d.raw
  BY <1>5, WarrantsWhatWasIssued
<1>7. /\ report'.record = i.record /\ report'.policy = p /\ report'.request = request
      /\ request.at = at /\ request.raw = d.raw /\ request.canonical = d.payload
  BY <1>3, <1>4 DEF Validate, Report, Request
<1>8. RestsOn(i, report')
  BY <1>6, <1>7 DEF RestsOn
<1> QED BY <1>7, <1>8

LEMMA FoundedNext == IInv /\ [Next]_vars => Founded(issued, report)'
<1> SUFFICES ASSUME IInv, [Next]_vars PROVE Founded(issued', report')
  OBVIOUS
<1>1. CASE UNCHANGED report
  BY <1>1, IssuedGrows, FoundedOnMore DEF IInv
<1>2. CASE report' = None
  BY <1>2 DEF Founded
<1>3. ASSUME NEW p \in Policies, Validate(p) PROVE Founded(issued', report')
  BY <1>3, ValidateIsFounded, IssuedGrows, FoundedOnMore
<1>4. UNCHANGED report \/ report' = None \/ \E p \in Policies : Validate(p)
  BY DEF Next, vars, host, Tick, Revoke, EditBundle, EditDraft, Repackage, Publish, Open, Load,
         Ask, AskAnother
<1> QED BY <1>1, <1>2, <1>3, <1>4

-----------------------------------------------------------------------------
(*                               Theorems                                  *)

LEMMA Invariance == Spec => []IInv
<1>1. IInv /\ [Next]_vars => IInv'
  BY TypeNext, IssuedNext, BundlesNext, RequestNext, FoundedNext DEF IInv
<1> QED BY InitIInv, <1>1, PTL DEF Spec

(* The variables keep their types, the answer a host holds is to the       *)
(* question it holds, and a report accepts only under a policy that limits *)
(* the age of revocation checks.                                           *)
THEOREM TypeCorrect == Spec => []TypeOK
<1>1. IInv => TypeOK
  BY DEF IInv
<1> QED BY <1>1, Invariance, PTL

(* Whatever happens to the bundle between its two readings, and whatever a *)
(* provider says of itself, a record that is accepted as signed is one the *)
(* issuer issued, no later than the evaluation time and still valid then.  *)
THEOREM SignedWasIssued == Spec => []SignedRecordsWereIssued
<1>1. IInv => SignedRecordsWereIssued
  BY DEF IInv, Founded, RestsOn, SignedRecordsWereIssued, Accepted
<1> QED BY <1>1, Invariance, PTL

(* An issuer that revokes can count on it: signed evidence is accepted at  *)
(* most as of times within the policy's age of the revocation.             *)
THEOREM RevocationIsEffective == Spec => []RevocationReachesHosts
<1>1. IInv => RevocationReachesHosts
  <2> SUFFICES ASSUME IInv, Accepted, report.policy.signed, report.policy.active,
                      revokedAt # None
               PROVE  report.request.at <= revokedAt + report.policy.maxAge
    BY DEF RevocationReachesHosts
  <2>1. PICK i \in issued : RestsOn(i, report)
    BY DEF IInv, Founded, Accepted
  <2>2. i.at <= revokedAt /\ report.request.at <= i.at + report.policy.maxAge
    BY <2>1 DEF RestsOn, IInv, IssuedRecords, Dated
  <2>3. /\ i.at \in Int /\ revokedAt \in Int
        /\ report.policy.maxAge \in Int /\ report.request.at \in Int
    BY TimeAssumption DEF IInv, TypeOK, IssuedRecords, Dated, Founded, Accepted, Time
  <2> QED BY <2>2, <2>3
<1> QED BY <1>1, Invariance, PTL

(* Under a policy that wants the draft bound, signed evidence is accepted  *)
(* only for a draft with the payload the issuer saw, and for the same file *)
(* if the record binds the file.                                           *)
THEOREM EvidenceMatchesTheDraft == Spec => []EvidenceIsAboutTheDraft
<1>1. IInv => EvidenceIsAboutTheDraft
  BY DEF IInv, Founded, RestsOn, EvidenceIsAboutTheDraft, Accepted
<1> QED BY <1>1, Invariance, PTL

=============================================================================
