---------------------------- MODULE ProposalTrust ----------------------------
(***************************************************************************)
(* Trust in peer proposals (msg::fbuf::p2pmsg, p2pmsg_conversion.cpp).     *)
(*                                                                         *)
(* A UNL node signs the hash of its proposal's consensus fields            *)
(* (generate_proposal_signature) and sends it in a P2PMsg container that  *)
(* carries its own created_on time (create_msg_from_proposal,             *)
(* create_p2p_msg).  Peers forward consensus messages, and nothing but    *)
(* the signature protects a message in transit: a forwarder can rewrite   *)
(* the container's created_on and any field of the body.  The receiver    *)
(* drops messages that are too old (get_peer_message_info), checks the    *)
(* signer is in the UNL and the signature covers the hash of the fields   *)
(* (verify_proposal_msg_trust, hash_proposal_msg), and builds the         *)
(* proposal consensus uses (create_proposal_from_msg).                    *)
(*                                                                         *)
(* Abstraction: the flatbuf_hasher digest of a field list is the record   *)
(* of those fields (collision-free); a signature is the pair of the key   *)
(* and the signed digest (unforgeable: only the key's owner makes it).   *)
(* Time is counted in milliseconds from an epoch much larger than         *)
(* 3 * roundtime, so time_now - 3 * roundtime does not wrap.              *)
(***************************************************************************)
EXTENDS Integers, FiniteSets

CONSTANTS
    Honest,      \* UNL nodes that follow the protocol (own their keys)
    Keys,        \* every public key a peer may use
    UNL,         \* unl::exists
    Proposals,   \* proposals honest nodes may send: [ProposalFields -> Vals]
    Vals,        \* values a forwarder may write into a field
    Rewritable,  \* fields a forwarder rewrites (a bound on the exploration)
    RoundTime,   \* conf::cfg.contract.consensus.roundtime (ms)
    MaxTime,     \* bound: last millisecond explored
    MaxMsgs      \* bound: messages in flight

\* The fields of a ProposalMsg (create_msg_from_proposal).
ProposalFields ==
    {"stage", "time", "time_config", "node_nonce", "group_nonce", "users",
     "input_hashes", "output_hash", "output_sig", "state_hash", "patch_hash",
     "last_primary_shard_id", "last_raw_shard_id"}

ASSUME ConstantsAssumption ==
    /\ Honest \subseteq UNL
    /\ UNL \subseteq Keys
    /\ Proposals \subseteq [ProposalFields -> Vals]
    /\ Rewritable \subseteq ProposalFields
    /\ RoundTime \in Nat \ {0}
    /\ MaxTime \in Nat
    /\ MaxMsgs \in Nat

VARIABLES
    now,        \* util::get_epoch_milliseconds() on the receiver
    net,        \* messages in transit (forwarded copies included)
    signed,     \* signed[n]: proposals honest node n has signed
    accepted,   \* the proposal built by the latest receipt, or None
    rejected    \* the message the latest receipt failed to trust, or None

vars == <<now, net, signed, accepted, rejected>>

-----------------------------------------------------------------------------
(* hash_proposal_msg: the fields the receiver hashes, in this order.      *)
HashProposalMsgFields ==
    {"stage", "time", "time_config", "group_nonce", "users", "input_hashes",
     "output_hash", "output_sig", "state_hash", "patch_hash",
     "last_primary_shard_id", "last_raw_shard_id"}

\* Fault variant: the sender's field list misses output_sig.
GenerateProposalSignatureFieldsShort ==
    HashProposalMsgFields \ {"output_sig"}

(* generate_proposal_signature: the fields the sender hashes and signs.   *)
GenerateProposalSignatureFields ==
    {"stage", "time", "time_config", "group_nonce", "users", "input_hashes",
     "output_hash", "output_sig", "state_hash", "patch_hash",
     "last_primary_shard_id", "last_raw_shard_id"}

\* flatbuf_hasher over a list of fields of a proposal body.
Digest(body, fields) == [f \in fields |-> body[f]]

\* crypto::sign / crypto::verify.
Sign(k, d) == [key |-> k, digest |-> d]
Verify(d, sig, k) == sig = Sign(k, d)

\* util::h32_empty: the digest of no fields, distinct from every proposal hash.
Empty == [f \in {} |-> 0]

\* No proposal or message (before the first receipt, or another outcome).
None == [f \in {} |-> 0]

(* get_peer_message_info on a message from a challenge-verified session   *)
(* of at most MAX_SIZE_FOR_TIME_CHECK bytes: is it too old?               *)
TooOld(m) == m.created_on < now - RoundTime * 3

\* Fault variant: the UNL test is skipped.
VerifyProposalMsgTrustNoUnl(m) ==
    IF Verify(Digest(m.body, HashProposalMsgFields), m.sig, m.pubkey)
      THEN Digest(m.body, HashProposalMsgFields)
      ELSE Empty

\* Fault variant: the result of crypto::verify is tested the wrong way round.
VerifyProposalMsgTrustInverted(m) ==
    IF m.pubkey \notin UNL
      THEN Empty
    ELSE IF ~Verify(Digest(m.body, HashProposalMsgFields), m.sig, m.pubkey)
      THEN Digest(m.body, HashProposalMsgFields)
      ELSE Empty

(* verify_proposal_msg_trust: the proposal hash, or h32_empty.           *)
VerifyProposalMsgTrust(m) ==
    IF m.pubkey \notin UNL
      THEN Empty
    ELSE IF Verify(Digest(m.body, HashProposalMsgFields), m.sig, m.pubkey)
      THEN Digest(m.body, HashProposalMsgFields)
      ELSE Empty

(* create_proposal_from_msg: the p2p::proposal built from the message.    *)
CreateProposalFromMsg(m, h) ==
    [pubkey |-> m.pubkey, root_hash |-> h, body |-> m.body,
     sent_timestamp |-> m.created_on, recv_timestamp |-> now]

-----------------------------------------------------------------------------
Init ==
    /\ now = 0
    /\ net = {}
    /\ signed = [n \in Honest |-> {}]
    /\ accepted = None
    /\ rejected = None

\* The clock advances.
Tick ==
    /\ now < MaxTime
    /\ now' = now + 1
    /\ UNCHANGED <<net, signed, accepted, rejected>>

(* An honest node sends a proposal (create_msg_from_proposal with its      *)
(* signature from generate_proposal_signature; create_p2p_msg stamps the   *)
(* container with the current time).                                      *)
SendProposal(n, p) ==
    /\ Cardinality(net) < MaxMsgs
    /\ net' = net \cup
          {[pubkey |-> n,
            sig |-> Sign(n, Digest(p, GenerateProposalSignatureFields)),
            body |-> p, created_on |-> now]}
    /\ signed' = [signed EXCEPT ![n] = @ \cup {p}]
    /\ UNCHANGED <<now, accepted, rejected>>

(* A peer that owns key k (not an honest one) sends any proposal it signs. *)
SendOwnProposal(k, p) ==
    /\ Cardinality(net) < MaxMsgs
    /\ net' = net \cup
          {[pubkey |-> k,
            sig |-> Sign(k, Digest(p, GenerateProposalSignatureFields)),
            body |-> p, created_on |-> now]}
    /\ UNCHANGED <<now, signed, accepted, rejected>>

(* A forwarding peer rewrites one body field of a message it relays.      *)
TamperField(m, f, v) ==
    /\ Cardinality(net) < MaxMsgs
    /\ net' = net \cup {[m EXCEPT !.body[f] = v]}
    /\ UNCHANGED <<now, signed, accepted, rejected>>

(* A forwarding peer rewrites the container's created_on.                 *)
Retime(m, t) ==
    /\ Cardinality(net) < MaxMsgs
    /\ net' = net \cup {[m EXCEPT !.created_on = t]}
    /\ UNCHANGED <<now, signed, accepted, rejected>>

(* A copy in transit is lost, or discarded by the peer holding it.        *)
Drop(m) ==
    /\ net' = net \ {m}
    /\ UNCHANGED <<now, signed, accepted, rejected>>

(* The receiver handles a proposal message it receives: the time check,  *)
(* then the trust check, then the proposal consensus will use.  A message *)
(* that is too old is dropped without a trace.                            *)
Receive(m) ==
    /\ net' = net \ {m}
    /\ IF TooOld(m)
         THEN /\ accepted' = None
              /\ rejected' = None
         ELSE LET h == VerifyProposalMsgTrust(m) IN
              IF h # Empty
                THEN /\ accepted' = CreateProposalFromMsg(m, h)
                     /\ rejected' = None
                ELSE /\ accepted' = None
                     /\ rejected' = m
    /\ UNCHANGED <<now, signed>>

Next ==
    \/ Tick
    \/ \E n \in Honest, p \in Proposals : SendProposal(n, p)
    \/ \E k \in Keys \ Honest, p \in Proposals : SendOwnProposal(k, p)
    \/ \E m \in net, f \in Rewritable, v \in Vals : TamperField(m, f, v)
    \/ \E m \in net, t \in 0..MaxTime : Retime(m, t)
    \/ \E m \in net : Receive(m)
    \/ \E m \in net : Drop(m)

Spec == Init /\ [][Next]_vars

-----------------------------------------------------------------------------
Message == [pubkey : Keys,
            sig : [key : Keys, digest : [GenerateProposalSignatureFields -> Vals]],
            body : [ProposalFields -> Vals], created_on : 0..MaxTime]

TypeOK ==
    /\ now \in 0..MaxTime
    /\ net \subseteq Message
    /\ signed \in [Honest -> SUBSET Proposals]
    /\ accepted \in {None} \cup
                    [pubkey : UNL, root_hash : [HashProposalMsgFields -> Vals],
                     body : [ProposalFields -> Vals],
                     sent_timestamp : 0..MaxTime, recv_timestamp : 0..MaxTime]
    /\ rejected \in {None} \cup Message

\* The proposal an accepted one agrees with on the given fields, if any.
SignedAgreeing(a, fields) ==
    {p \in signed[a.pubkey] : \A f \in fields : p[f] = a.body[f]}

(***************************************************************************)
(* Consensus only uses what the signer signed: every proposal accepted    *)
(* under an honest node's key agrees, on every field the stage engine     *)
(* merges except the nonce, with a proposal that node signed, however     *)
(* forwarders rewrite the messages they relay.                            *)
(***************************************************************************)
AcceptedConsensusFieldsSigned ==
    accepted # None /\ accepted.pubkey \in Honest =>
        SignedAgreeing(accepted, ProposalFields \ {"node_nonce"}) # {}

(***************************************************************************)
(* spec.md 4.D: the signature covers every field but pubkey, sig and the  *)
(* wall timestamps, so an accepted proposal under an honest key equals a  *)
(* proposal that node signed in every field, node_nonce included.         *)
(***************************************************************************)
AcceptedProposalIntact ==
    accepted # None /\ accepted.pubkey \in Honest =>
        accepted.body \in signed[accepted.pubkey]

(***************************************************************************)
(* An honest node's proposal that reaches the receiver unmodified and in  *)
(* time is never dropped: the sender's and the receiver's hash field      *)
(* lists agree (generate_proposal_signature and hash_proposal_msg keep    *)
(* two copies of the list).                                               *)
(***************************************************************************)
NoFalseRejection ==
    rejected # None =>
        ~(/\ rejected.pubkey \in Honest
          /\ rejected.body \in signed[rejected.pubkey]
          /\ rejected.sig = Sign(rejected.pubkey,
                                 Digest(rejected.body, GenerateProposalSignatureFields)))

=============================================================================
