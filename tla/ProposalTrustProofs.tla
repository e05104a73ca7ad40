-------------------------- MODULE ProposalTrustProofs --------------------------
(***************************************************************************)
(* Proofs about trust in peer proposals, for every UNL, key set, proposal *)
(* set, value set and roundtime satisfying ConstantsAssumption.           *)
(*                                                                         *)
(* AcceptedConsensusFieldsSigned is about the one proposal the latest     *)
(* receipt built, but what makes it true is a fact about every message in *)
(* transit: a signature under an honest key is one that key made, over    *)
(* the digest of a proposal it signed (SigsAuthentic).  Forwarders copy   *)
(* signatures and rewrite bodies, so the body of a message may disagree   *)
(* with its signature; the trust check compares them, and the two field  *)
(* lists of hash_proposal_msg and generate_proposal_signature being equal *)
(* carries the signed fields over to the accepted body.                   *)
(*                                                                         *)
(* NoFalseRejection follows from a fact about the rejected message alone  *)
(* (RejectedUntrusted): the trust check failed on it.                     *)
(***************************************************************************)
EXTENDS ProposalTrust, TLAPS

(* Every signature in transit under an honest key is that node's          *)
(* signature of a proposal it signed.                                     *)
SigsAuthentic ==
    \A m \in net :
        m.sig.key \in Honest =>
            \E p \in signed[m.sig.key] :
                m.sig.digest = Digest(p, GenerateProposalSignatureFields)

(* The latest rejected message failed verify_proposal_msg_trust.          *)
RejectedUntrusted ==
    rejected # None => VerifyProposalMsgTrust(rejected) = Empty

IInv ==
    /\ TypeOK
    /\ SigsAuthentic
    /\ AcceptedConsensusFieldsSigned
    /\ RejectedUntrusted

USE ConstantsAssumption

-----------------------------------------------------------------------------
(* The two copies of the hashed field list agree, and leave out only the  *)
(* node nonce.                                                            *)
LEMMA FieldListsAgree ==
    /\ GenerateProposalSignatureFields = HashProposalMsgFields
    /\ HashProposalMsgFields = ProposalFields \ {"node_nonce"}
BY DEF GenerateProposalSignatureFields, HashProposalMsgFields, ProposalFields

(* The proposal hash of any body differs from h32_empty.                  *)
LEMMA DigestNotEmpty ==
    ASSUME NEW body
    PROVE  Digest(body, HashProposalMsgFields) # Empty
<1>1. "stage" \in DOMAIN Digest(body, HashProposalMsgFields)
  BY DEF Digest, HashProposalMsgFields
<1>2. DOMAIN Empty = {}
  BY DEF Empty
<1>. QED
  BY <1>1, <1>2

(* A message or a built proposal is a record, never the None marker.      *)
LEMMA RecordsNotNone ==
    /\ \A m \in Message : m # None
    /\ \A m, h : CreateProposalFromMsg(m, h) # None
<1>1. DOMAIN None = {}
  BY DEF None
<1>2. ASSUME NEW m \in Message PROVE m # None
  <2>1. "pubkey" \in DOMAIN m
    BY DEF Message
  <2>. QED
    BY <1>1, <2>1
<1>3. ASSUME NEW m, NEW h PROVE CreateProposalFromMsg(m, h) # None
  <2>1. "pubkey" \in DOMAIN CreateProposalFromMsg(m, h)
    BY DEF CreateProposalFromMsg
  <2>. QED
    BY <1>1, <2>1
<1>. QED
  BY <1>2, <1>3

(* What verify_proposal_msg_trust has checked when it returns a hash.     *)
LEMMA TrustedMeansVerified ==
    ASSUME NEW m, VerifyProposalMsgTrust(m) # Empty
    PROVE  /\ m.pubkey \in UNL
           /\ m.sig = Sign(m.pubkey, Digest(m.body, HashProposalMsgFields))
           /\ VerifyProposalMsgTrust(m) = Digest(m.body, HashProposalMsgFields)
BY DEF VerifyProposalMsgTrust, Verify

(* A message that carries its honest sender's own signature of its body   *)
(* passes the trust check.                                                *)
LEMMA HonestSignedTrusted ==
    ASSUME NEW m, m.pubkey \in Honest,
           m.sig = Sign(m.pubkey, Digest(m.body, GenerateProposalSignatureFields))
    PROVE  VerifyProposalMsgTrust(m) # Empty
<1>1. m.pubkey \in UNL
  OBVIOUS
<1>2. VerifyProposalMsgTrust(m) = Digest(m.body, HashProposalMsgFields)
  BY <1>1, FieldListsAgree DEF VerifyProposalMsgTrust, Verify
<1>. QED
  BY <1>2, DigestNotEmpty


(* Two digests over the same field list agree on every field of it.       *)
LEMMA DigestAgrees ==
    ASSUME NEW p, NEW q, NEW F,
           Digest(p, F) = Digest(q, F)
    PROVE  \A f \in F : p[f] = q[f]
<1> SUFFICES ASSUME NEW f \in F PROVE p[f] = q[f]
  OBVIOUS
<1>1. Digest(p, F)[f] = p[f] /\ Digest(q, F)[f] = q[f]
  BY DEF Digest
<1>. QED
  BY <1>1

-----------------------------------------------------------------------------
LEMMA InitIInv == Init => IInv
<1> SUFFICES ASSUME Init PROVE IInv
  OBVIOUS
<1>1. None \in {None} \cup Message
  OBVIOUS
<1>2. accepted = None /\ rejected = None
  BY DEF Init
<1>. QED
  BY <1>1, <1>2
  DEF Init, IInv, TypeOK, SigsAuthentic, AcceptedConsensusFieldsSigned,
      RejectedUntrusted

LEMMA TickIInv ==
    ASSUME IInv, Tick
    PROVE  IInv'
BY DEF Tick, IInv, TypeOK, SigsAuthentic, AcceptedConsensusFieldsSigned,
       SignedAgreeing, RejectedUntrusted, VerifyProposalMsgTrust, Verify,
       Digest

LEMMA SendProposalIInv ==
    ASSUME IInv, NEW n \in Honest, NEW p \in Proposals, SendProposal(n, p)
    PROVE  IInv'
<1> DEFINE new == [pubkey |-> n,
                   sig |-> Sign(n, Digest(p, GenerateProposalSignatureFields)),
                   body |-> p, created_on |-> now]
<1>1. net' = net \cup {new} /\ signed' = [signed EXCEPT ![n] = @ \cup {p}]
  BY DEF SendProposal
<1>2. \A k \in Honest : signed[k] \subseteq signed'[k]
  BY <1>1 DEF IInv, TypeOK
<1>3. new \in Message
  <2>1. p \in [ProposalFields -> Vals]
    OBVIOUS
  <2>2. Digest(p, GenerateProposalSignatureFields)
          \in [GenerateProposalSignatureFields -> Vals]
    BY <2>1 DEF Digest, GenerateProposalSignatureFields, ProposalFields
  <2>. QED
    BY <2>1, <2>2 DEF Message, Sign, IInv, TypeOK
<1>4. TypeOK'
  BY <1>1, <1>3 DEF SendProposal, IInv, TypeOK
<1>5. SigsAuthentic'
  <2> SUFFICES ASSUME NEW m \in net', m.sig.key \in Honest
               PROVE  \E q \in signed'[m.sig.key] :
                          m.sig.digest = Digest(q, GenerateProposalSignatureFields)
    BY DEF SigsAuthentic
  <2>1. CASE m = new
    <3>1. p \in signed'[n]
      BY <1>1 DEF IInv, TypeOK
    <3>. QED
      BY <2>1, <3>1 DEF Sign
  <2>2. CASE m \in net
    BY <2>2, <1>2 DEF IInv, SigsAuthentic
  <2>. QED
    BY <1>1, <2>1, <2>2
<1>6. AcceptedConsensusFieldsSigned'
  BY <1>2 DEF SendProposal, IInv, AcceptedConsensusFieldsSigned, SignedAgreeing
<1>7. RejectedUntrusted'
  BY DEF SendProposal, IInv, RejectedUntrusted
<1>. QED
  BY <1>4, <1>5, <1>6, <1>7 DEF IInv

LEMMA SendOwnProposalIInv ==
    ASSUME IInv, NEW k \in Keys \ Honest, NEW p \in Proposals,
           SendOwnProposal(k, p)
    PROVE  IInv'
<1> DEFINE new == [pubkey |-> k,
                   sig |-> Sign(k, Digest(p, GenerateProposalSignatureFields)),
                   body |-> p, created_on |-> now]
<1>1. net' = net \cup {new}
  BY DEF SendOwnProposal
<1>2. new \in Message
  <2>1. p \in [ProposalFields -> Vals]
    OBVIOUS
  <2>2. Digest(p, GenerateProposalSignatureFields)
          \in [GenerateProposalSignatureFields -> Vals]
    BY <2>1 DEF Digest, GenerateProposalSignatureFields, ProposalFields
  <2>. QED
    BY <2>1, <2>2 DEF Message, Sign, IInv, TypeOK
<1>3. new.sig.key \notin Honest
  BY DEF Sign
<1>. QED
  BY <1>1, <1>2, <1>3
  DEF SendOwnProposal, IInv, TypeOK, SigsAuthentic,
      AcceptedConsensusFieldsSigned, SignedAgreeing, RejectedUntrusted

LEMMA TamperFieldIInv ==
    ASSUME IInv, NEW m \in net, NEW f \in Rewritable, NEW v \in Vals,
           TamperField(m, f, v)
    PROVE  IInv'
<1> DEFINE new == [m EXCEPT !.body[f] = v]
<1>1. net' = net \cup {new}
  BY DEF TamperField
<1>2. m \in Message
  BY DEF IInv, TypeOK
<1>3. new \in Message
  BY <1>2 DEF Message
<1>4. new.sig = m.sig
  BY <1>2 DEF Message
<1>. QED
  BY <1>1, <1>3, <1>4
  DEF TamperField, IInv, TypeOK, SigsAuthentic,
      AcceptedConsensusFieldsSigned, SignedAgreeing, RejectedUntrusted

LEMMA RetimeIInv ==
    ASSUME IInv, NEW m \in net, NEW t \in 0..MaxTime, Retime(m, t)
    PROVE  IInv'
<1> DEFINE new == [m EXCEPT !.created_on = t]
<1>1. net' = net \cup {new}
  BY DEF Retime
<1>2. m \in Message
  BY DEF IInv, TypeOK
<1>3. new \in Message
  BY <1>2 DEF Message
<1>4. new.sig = m.sig
  BY <1>2 DEF Message
<1>. QED
  BY <1>1, <1>3, <1>4
  DEF Retime, IInv, TypeOK, SigsAuthentic,
      AcceptedConsensusFieldsSigned, SignedAgreeing, RejectedUntrusted

LEMMA DropIInv ==
    ASSUME IInv, NEW m \in net, Drop(m)
    PROVE  IInv'
BY DEF Drop, IInv, TypeOK, SigsAuthentic, AcceptedConsensusFieldsSigned,
       SignedAgreeing, RejectedUntrusted


LEMMA ReceiveIInv ==
    ASSUME IInv, NEW m \in net, Receive(m)
    PROVE  IInv'
<1>1. m \in Message
  BY DEF IInv, TypeOK
<1>2. UNCHANGED <<now, signed>> /\ net' = net \ {m}
  BY DEF Receive
<1>3. (net \ {m} \subseteq Message) /\ SigsAuthentic'
  BY <1>2 DEF IInv, TypeOK, SigsAuthentic
<1>4. CASE TooOld(m)
  BY <1>2, <1>3, <1>4
  DEF Receive, IInv, TypeOK, AcceptedConsensusFieldsSigned, RejectedUntrusted
<1>5. CASE ~TooOld(m) /\ VerifyProposalMsgTrust(m) # Empty
  <2>1. accepted' = CreateProposalFromMsg(m, Digest(m.body, HashProposalMsgFields))
        /\ rejected' = None
    BY <1>5, TrustedMeansVerified DEF Receive
  <2>2. /\ m.pubkey \in UNL
        /\ m.sig = Sign(m.pubkey, Digest(m.body, HashProposalMsgFields))
        /\ VerifyProposalMsgTrust(m) = Digest(m.body, HashProposalMsgFields)
    BY <1>5, TrustedMeansVerified
  <2>3. CreateProposalFromMsg(m, Digest(m.body, HashProposalMsgFields))
          \in [pubkey : UNL, root_hash : [HashProposalMsgFields -> Vals],
               body : [ProposalFields -> Vals],
               sent_timestamp : 0..MaxTime, recv_timestamp : 0..MaxTime]
    <3>1. m.body \in [ProposalFields -> Vals] /\ m.created_on \in 0..MaxTime
      BY <1>1 DEF Message
    <3>2. Digest(m.body, HashProposalMsgFields) \in [HashProposalMsgFields -> Vals]
      BY <2>2, <3>1 DEF Digest, HashProposalMsgFields, ProposalFields
    <3>. QED
      BY <2>2, <3>1, <3>2 DEF CreateProposalFromMsg, IInv, TypeOK
  <2>4. TypeOK'
    BY <1>2, <1>3, <2>1, <2>3 DEF IInv, TypeOK
  <2>5. AcceptedConsensusFieldsSigned'
    <3> SUFFICES ASSUME m.pubkey \in Honest
                 PROVE  SignedAgreeing(CreateProposalFromMsg(m, Digest(m.body, HashProposalMsgFields)),
                                        ProposalFields \ {"node_nonce"}) # {}
      BY <2>1, <1>2 DEF AcceptedConsensusFieldsSigned, SignedAgreeing,
         CreateProposalFromMsg
    <3>1. m.sig.key = m.pubkey /\ m.sig.digest = Digest(m.body, HashProposalMsgFields)
      BY <2>2 DEF Sign
    <3>2. PICK q \in signed[m.pubkey] :
              m.sig.digest = Digest(q, GenerateProposalSignatureFields)
      BY <3>1 DEF IInv, SigsAuthentic
    <3>3. Digest(q, HashProposalMsgFields) = Digest(m.body, HashProposalMsgFields)
      BY <3>1, <3>2, FieldListsAgree
    <3>4. \A f \in ProposalFields \ {"node_nonce"} : q[f] = m.body[f]
      BY <3>3, DigestAgrees, FieldListsAgree
    <3>. QED
      BY <3>2, <3>4 DEF SignedAgreeing, CreateProposalFromMsg
  <2>6. RejectedUntrusted'
    BY <2>1 DEF RejectedUntrusted
  <2>. QED
    BY <1>3, <2>4, <2>5, <2>6 DEF IInv
<1>6. CASE ~TooOld(m) /\ VerifyProposalMsgTrust(m) = Empty
  <2>1. accepted' = None /\ rejected' = m
    BY <1>6 DEF Receive
  <2>. QED
    BY <1>1, <1>2, <1>3, <1>6, <2>1
    DEF IInv, TypeOK, AcceptedConsensusFieldsSigned, RejectedUntrusted
<1>. QED
  BY <1>4, <1>5, <1>6

LEMMA NextIInv ==
    ASSUME IInv, [Next]_vars
    PROVE  IInv'
<1>1. CASE Tick
  BY <1>1, TickIInv
<1>2. ASSUME NEW n \in Honest, NEW p \in Proposals, SendProposal(n, p)
      PROVE IInv'
  BY <1>2, SendProposalIInv
<1>3. ASSUME NEW k \in Keys \ Honest, NEW p \in Proposals, SendOwnProposal(k, p)
      PROVE IInv'
  BY <1>3, SendOwnProposalIInv
<1>4. ASSUME NEW m \in net, NEW f \in Rewritable, NEW v \in Vals,
             TamperField(m, f, v)
      PROVE IInv'
  BY <1>4, TamperFieldIInv
<1>5. ASSUME NEW m \in net, NEW t \in 0..MaxTime, Retime(m, t)
      PROVE IInv'
  BY <1>5, RetimeIInv
<1>6. ASSUME NEW m \in net, Receive(m)
      PROVE IInv'
  BY <1>6, ReceiveIInv
<1>7. ASSUME NEW m \in net, Drop(m)
      PROVE IInv'
  BY <1>7, DropIInv
<1>8. CASE UNCHANGED vars
  BY <1>8 DEF vars, IInv, TypeOK, SigsAuthentic,
             AcceptedConsensusFieldsSigned, SignedAgreeing, RejectedUntrusted
<1>. QED
  BY <1>1, <1>2, <1>3, <1>4, <1>5, <1>6, <1>7, <1>8 DEF Next

(* Every state is well typed: messages in transit, the signed sets and    *)
(* the latest outcome of a receipt keep their shapes.                     *)
THEOREM TypeCorrect == Spec => []TypeOK
<1>1. Init => IInv
  BY InitIInv
<1>2. IInv /\ [Next]_vars => IInv'
  BY NextIInv
<1>3. IInv => TypeOK
  BY DEF IInv
<1>. QED
  BY <1>1, <1>2, <1>3, PTL DEF Spec

(* However forwarders rewrite the bodies and timestamps of the messages   *)
(* they relay, a proposal verify_proposal_msg_trust accepts under an      *)
(* honest key agrees with one that node signed on every field but the     *)
(* node nonce.                                                            *)
THEOREM AcceptedConsensusFieldsSignedHolds ==
    Spec => []AcceptedConsensusFieldsSigned
<1>1. Init => IInv
  BY InitIInv
<1>2. IInv /\ [Next]_vars => IInv'
  BY NextIInv
<1>3. IInv => AcceptedConsensusFieldsSigned
  BY DEF IInv
<1>. QED
  BY <1>1, <1>2, <1>3, PTL DEF Spec

(* An honest node's proposal carrying its own signature of its body is    *)
(* never rejected by verify_proposal_msg_trust: the sender's and the      *)
(* receiver's hashed field lists agree.                                   *)
THEOREM NoFalseRejectionHolds == Spec => []NoFalseRejection
<1>1. Init => IInv
  BY InitIInv
<1>2. IInv /\ [Next]_vars => IInv'
  BY NextIInv
<1>3. IInv => NoFalseRejection
  <2> SUFFICES ASSUME IInv, rejected # None,
                      rejected.pubkey \in Honest,
                      rejected.sig = Sign(rejected.pubkey,
                          Digest(rejected.body, GenerateProposalSignatureFields))
               PROVE  FALSE
    BY DEF NoFalseRejection
  <2>1. VerifyProposalMsgTrust(rejected) = Empty
    BY DEF IInv, RejectedUntrusted
  <2>. QED
    BY <2>1, HonestSignedTrusted
<1>. QED
  BY <1>1, <1>2, <1>3, PTL DEF Spec

=============================================================================
