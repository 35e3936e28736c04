-------------------------------- MODULE Codec ---------------------------------
(***************************************************************************)
(* The objects that convert themselves to protocol buffers and back, and   *)
(* the caches they keep of that: block certificates (msg/blockcert.go and  *)
(* msg/partcert.go), blocks (chain/extblock.go), and the configurations    *)
(* of replicas and clients (config/).  Each behaviour follows one kind of  *)
(* object through all orders of its calls: "a" is written and sent as      *)
(* bytes, "b" is what the bytes are read into, again and again.            *)
(***************************************************************************)
EXTENDS Naturals, Sequences

CONSTANTS
  Info,      \* contents: a certified block, a block's parent, a configuration
  Voter,     \* signers
  Sig,       \* signatures
  MaxVotes,  \* bound: signatures in a certificate
  nil        \* what is not there

\* The maps of votes.
VoteMap == UNION {[S -> Sig] : S \in SUBSET Voter}

\* The fields of a header that differ between blocks: the height goes with the
\* parent.  Extra is the byte 'E' in an empty block, and '1' or '2' in the two
\* of a leader that equivocates.
Proposed == {"nil", "1", "2"}
Header == [parent : Info, extra : Proposed \cup {"E"}]

\* The two hashes of a header: a digest of all its bytes, and its first bytes
\* as they are, which show the parent and no more.
DoHash(h) == <<"digest", h>>
ToHash(h) == <<"bytes", h.parent>>
EmptyHash == <<>>

\* nil is no content, no map and no digest.
ASSUME NilAssumption ==
  nil \notin Info \cup VoteMap /\ \A h \in Header : nil # DoHash(h)

VARIABLES kind, obj, wire   \* wire: the message sent last, or nil

codecVars == <<kind, obj, wire>>

Kind == {"cert", "block", "node", "client"}
Object == {"a", "b"}

\* A certificate: the block info, the ids and their signatures, and
\* the cache.  voteMap is nil before Init.
NoCert == [info |-> nil, ids |-> <<>>, sigs |-> <<>>,
           voteMap |-> nil, proto |-> nil, valid |-> nil]

\* A block: the header (the body goes with it) and the caches.
NoBlock == [header |-> nil, hash |-> nil, proto |-> nil]

\* A configuration: the embedded messages and the cache.
NoConfig == [content |-> nil, proto |-> nil]

New(k) == CASE k = "cert" -> NoCert [] k = "block" -> NoBlock [] OTHER -> NoConfig

CodecInit ==
  /\ kind \in Kind
  /\ obj = [o \in Object |-> New(kind)]
  /\ wire = nil

Set(o, x) == obj' = [obj EXCEPT ![o] = x]

-------------------------------------------------------------------------------
\* Block certificates.

\* Mutant: the new block info leaves the cache valid.
SetInfoOnly(c, h) == [c EXCEPT !.info = h]

SetBlockInfo(c, h) == [c EXCEPT !.info = h, !.valid = FALSE]

InitVotes(c) == [c EXCEPT !.voteMap = <<>>]

AddSignature(c, v, sig) ==
  [c EXCEPT !.ids = Append(@, v), !.sigs = Append(@, sig),
            !.voteMap = [i \in DOMAIN @ \cup {v} |-> IF i = v THEN sig ELSE c.voteMap[i]]]

\* The cache of BlockCertificate hides that of PartialCertificate.
AddVote(c, v, sig) == [AddSignature(c, v, sig) EXCEPT !.valid = FALSE]

MarshalCert(c) == [data |-> c.info, ids |-> c.ids, sigs |-> c.sigs]

\* Is the cached message returned?
CertCached(c) ==
  c.proto # nil /\ c.valid = TRUE /\ Len(c.proto.ids) = Len(c.ids)

CertToProto(c) == IF CertCached(c) THEN c.proto ELSE MarshalCert(c)

\* The certificate after ToProto.
CertAfterToProto(c) ==
  IF CertCached(c) THEN c ELSE [c EXCEPT !.proto = MarshalCert(c), !.valid = TRUE]

\* Mutant: the map of votes is not filled.
FromProtoNoVotes(c, m) ==
  [info |-> m.data, ids |-> m.ids, sigs |-> m.sigs,
   voteMap |-> <<>>, proto |-> m, valid |-> c.valid]

\* valid is left as it was.
CertFromProto(c, m) ==
  [info |-> m.data, ids |-> m.ids, sigs |-> m.sigs,
   voteMap |-> [v \in {m.ids[i] : i \in 1..Len(m.ids)} |->
                  m.sigs[CHOOSE i \in 1..Len(m.ids) :
                           /\ m.ids[i] = v
                           /\ \A j \in (i + 1)..Len(m.ids) : m.ids[j] # v]],
   proto |-> m, valid |-> c.valid]

GetSignatureFromID(c, v) ==
  IF v \in DOMAIN c.voteMap THEN c.voteMap[v] ELSE nil

\* The votes of NewCert come from a map by voter: no voter signs twice.
CertStep(o) ==
  LET c == obj[o]
  IN /\ kind = "cert"
     /\ \/ \E h \in Info : Set(o, SetBlockInfo(c, h)) /\ UNCHANGED wire
        \/ c.voteMap = nil /\ Set(o, InitVotes(c)) /\ UNCHANGED wire
        \/ /\ c.voteMap # nil
           /\ Len(c.ids) < MaxVotes
           /\ \E v \in Voter, sig \in Sig :
                /\ \A i \in 1..Len(c.ids) : c.ids[i] # v
                /\ \/ Set(o, AddVote(c, v, sig))
                   \/ Set(o, AddSignature(c, v, sig))
           /\ UNCHANGED wire
        \/ /\ c.info # nil
           /\ wire' = CertToProto(c)
           /\ Set(o, CertAfterToProto(c))
        \/ /\ o = "b" /\ wire # nil
           /\ Set(o, CertFromProto(c, wire))
           /\ UNCHANGED wire

-------------------------------------------------------------------------------
\* Blocks.

\* A proposer puts the digest into the message; a node that makes an empty
\* block for itself leaves the hash to GetBlockHash.
NewCandidateProposal(x, extra) ==
  LET h == [parent |-> x, extra |-> extra]
  IN [header |-> h, hash |-> DoHash(h)]

createAnEmptyBlock(x) ==
  [header |-> [parent |-> x, extra |-> "E"], hash |-> EmptyHash]

\* Mutant: the cached hash is kept.
BlockKeepHash(b, m) ==
  [header |-> m.header, hash |-> IF b.hash = nil THEN m.hash ELSE b.hash,
   proto |-> m]

BlockFromProto(b, m) == [header |-> m.header, hash |-> m.hash, proto |-> m]

\* ToProto asserts a type of the cache, which panics if nothing was stored.
BlockToProto(b) == b.proto

\* The receiver is a value: the computed hash is stored in a copy.
GetBlockHash(b) ==
  IF b.hash \in {nil, EmptyHash} THEN ToHash(b.header) ELSE b.hash

BlockStep(o) ==
  /\ kind = "block"
  /\ \/ /\ \E x \in Info :
             \/ \E e \in Proposed : Set(o, BlockFromProto(obj[o], NewCandidateProposal(x, e)))
             \/ Set(o, BlockFromProto(obj[o], createAnEmptyBlock(x)))
        /\ UNCHANGED wire
     \/ /\ obj[o].proto # nil
        /\ wire' = BlockToProto(obj[o])
        /\ UNCHANGED obj
     \/ /\ wire # nil
        /\ Set(o, BlockFromProto(obj[o], wire))
        /\ UNCHANGED wire

-------------------------------------------------------------------------------
\* Configurations.  Only a replica's FromProto renews the cache.
ConfigFromProto(c, m) ==
  [c EXCEPT !.content = m, !.proto = IF kind = "node" THEN m ELSE @]

\* What ToProto returns, and the configuration after it.
ConfigToProto(c) == IF c.proto = nil THEN c.content ELSE c.proto
ConfigAfterToProto(c) == [c EXCEPT !.proto = ConfigToProto(c)]

\* MarshalBinary has a value receiver: its ToProto fills the cache of a copy.
\* UnmarshalBinary of bytes that do not parse changes nothing, and returns no
\* error.
ConfigStep(o) ==
  LET c == obj[o]
  IN /\ kind \in {"node", "client"}
     /\ \/ /\ c = NoConfig
           /\ \E x \in Info : Set(o, ConfigFromProto(c, x))
           /\ UNCHANGED wire
        \/ /\ c.content # nil
           /\ wire' = ConfigToProto(c)
           /\ Set(o, ConfigAfterToProto(c)) \/ UNCHANGED obj
        \/ /\ wire # nil
           /\ Set(o, ConfigFromProto(c, wire)) \/ UNCHANGED obj
           /\ UNCHANGED wire

CodecNext ==
  /\ \E o \in Object : CertStep(o) \/ BlockStep(o) \/ ConfigStep(o)
  /\ UNCHANGED kind

CodecSpec == CodecInit /\ [][CodecNext]_codecVars

-------------------------------------------------------------------------------
\* Properties.

\* The message that each object would give away now.
ToProto(x) ==
  CASE kind = "cert" -> CertToProto(x)
    [] kind = "block" -> BlockToProto(x)
    [] OTHER -> ConfigToProto(x)

\* The message with the content that the object has now.
Content(x) ==
  CASE kind = "cert" -> MarshalCert(x)
    [] kind = "block" -> [header |-> x.header, hash |-> x.hash]
    [] OTHER -> x.content

\* After any calls, ToProto of a certificate, a block or a replica's
\* configuration gives the object's present content: no cache is stale,
\* although FromProto of a certificate does not mark its cache valid and
\* AddSignature does not mark it invalid (blockcert.go, ToProto: "Check if the
\* cache is valid").  It is not so for a client's configuration: ToProto,
\* FromProto of another one and ToProto give the first one.
CacheCoherent ==
  kind # "client" =>
    \A o \in Object : obj[o] # New(kind) => ToProto(obj[o]) = Content(obj[o])

\* IsCertValid finds the signature of every signer, of certificates it has
\* built and of those it has received, over earlier ones or not (cert.go,
\* "Signature for ID not found").
SignaturesFound ==
  kind = "cert" => \A o \in Object : \A i \in 1..Len(obj[o].ids) :
                     GetSignatureFromID(obj[o], obj[o].ids[i]) = obj[o].sigs[i]

\* Two blocks have the same hash exactly if they have the same header, and no
\* block has the hash of "no block": proposed blocks, hashed by a digest, and
\* empty ones, which are sent with EmptyHash and named by the first bytes of
\* their headers, also when another block has been read into the object
\* (extblock.go, GetBlockHash; BlocksByHash is keyed by it).  The commands are
\* not in the header, so they are not told by the hash.
HashIdentifiesHeader ==
  kind = "block" => \A o, p \in Object :
    obj[o] # NoBlock /\ obj[p] # NoBlock =>
      /\ GetBlockHash(obj[o]) # EmptyHash
      /\ GetBlockHash(obj[o]) = GetBlockHash(obj[p])
           <=> obj[o].header = obj[p].header
===============================================================================
