---------------------------- MODULE ReplyRecipients ----------------------------
(***************************************************************************)
(* Whom gmail +reply and +reply-all write to (helpers/gmail/reply.rs): the *)
(* recipients follow from the original message, the user's own addresses   *)
(* and the flags.  Addresses are compared without regard to case, as the   *)
(* emails of the code are in lower case; a field is the set of its         *)
(* addresses, since each is kept once.                                     *)
(***************************************************************************)
EXTENDS Outcome, FiniteSets

CONSTANTS
  Address,
  Own,          \* the user's addresses: the primary one and the send-as aliases
  MaxOriginal,  \* bound: addresses in the original's Reply-To, To and Cc together
  MaxGiven      \* bound: addresses given with --to, --cc, --bcc and --remove together

ASSUME ReplyAssumption ==
  /\ Own \subseteq Address /\ Own # {}
  /\ MaxOriginal \in Nat /\ MaxGiven \in Nat

VARIABLES
  aStep,      \* "off", fetch (arguments parsed and confirmed), over
  aFlags,     \* [all, to, cc, bcc, remove]; all is +reply-all
  aOriginal,  \* the message replied to: [from, replyTo, to, cc]
  aSent,      \* the recipients of the reply, [to, cc, bcc]
  aEnd

replyVars == <<aStep, aFlags, aOriginal, aSent, aEnd>>

\* A message has a sender; Reply-To names somebody or is absent.
Originals ==
  {o \in [from : Address, replyTo : SUBSET Address, to : SUBSET Address, cc : SUBSET Address] :
     Cardinality(o.replyTo) + Cardinality(o.to) + Cardinality(o.cc) <= MaxOriginal}

ReplyFlags ==
  {f \in [all : BOOLEAN, to : SUBSET Address, cc : SUBSET Address, bcc : SUBSET Address,
          remove : SUBSET Address] :
     /\ Cardinality(f.to) + Cardinality(f.cc) + Cardinality(f.bcc) + Cardinality(f.remove) <= MaxGiven
     /\ f.all \/ f.remove = {}}

ReplyInit ==
  aStep = "off" /\ aFlags = NoValue /\ aOriginal = NoValue /\ aSent = NoValue /\ aEnd = NoValue

\* parse_reply_args; --remove belongs to +reply-all.
ReplyBegin ==
  /\ aStep = "off"
  /\ aFlags' \in ReplyFlags
  /\ aStep' = "fetch"
  /\ UNCHANGED <<aOriginal, aSent, aEnd>>

\* is_self_reply: the message is the user's own.
SelfReply(o) == o.from \in Own

\* extract_reply_to_address
ReplyAddress(o) == IF o.replyTo # {} THEN o.replyTo ELSE {o.from}

\* build_reply_recipients: the sender; for an own message its recipients, and for a
\* note to oneself oneself.
PlainTo(o) ==
  IF ~SelfReply(o) THEN ReplyAddress(o)
  ELSE IF o.to \ Own # {} THEN o.to \ Own ELSE o.to

\* The candidates for To of a reply to all.
AllCandidates(o) == IF SelfReply(o) THEN o.to ELSE ReplyAddress(o)

\* Mutant: the note to oneself is addressed to those removed as well.
AllToForgets(o, f) ==
  LET others == AllCandidates(o) \ (Own \cup f.remove)
  IN IF others = {} /\ SelfReply(o) THEN AllCandidates(o) ELSE others

\* build_reply_all_recipients: nobody removed and not oneself, but in a note to oneself.
AllTo(o, f) ==
  LET others == AllCandidates(o) \ (Own \cup f.remove)
  IN IF others = {} /\ SelfReply(o) THEN AllCandidates(o) \ f.remove ELSE others

\* Mutant: only the copies get a copy, not the other recipients.
AllCcCopies(o, f) == (o.cc \cup f.cc) \ (AllTo(o, f) \cup Own \cup f.remove)

\* Everybody else who had the message, and those given.
AllCc(o, f) ==
  ((IF SelfReply(o) THEN {} ELSE o.to) \cup o.cc \cup f.cc) \ (AllTo(o, f) \cup Own \cup f.remove)

\* dedup_recipients: To before Cc before Bcc.
Dedup(to, cc, bcc) == [to |-> to, cc |-> cc \ to, bcc |-> bcc \ (to \cup cc)]

\* The recipients of a reply to o.
Recipients(o, f) ==
  Dedup((IF f.all THEN AllTo(o, f) ELSE PlainTo(o)) \cup f.to,
        IF f.all THEN AllCc(o, f) ELSE f.cc, f.bcc)

\* handle_reply: with the original fetched the recipients are known; there must be
\* somebody in To.
ReplyDeliver ==
  /\ aStep = "fetch"
  /\ aOriginal' \in Originals
  /\ LET sent == Recipients(aOriginal', aFlags) IN
       IF sent.to = {} THEN aEnd' = "validation" /\ aSent' = NoValue
       ELSE aEnd' = "ok" /\ aSent' = sent
  /\ aStep' = "over"
  /\ UNCHANGED aFlags

ReplyNext == ReplyBegin \/ ReplyDeliver
ReplySpec == ReplyInit /\ [][ReplyNext]_replyVars
-----------------------------------------------------------------------------
ReplyTypeOK ==
  /\ aStep \in {"off", "fetch", "over"}
  /\ aFlags \in ReplyFlags \cup {NoValue}
  /\ aOriginal \in Originals \cup {NoValue}
  /\ aEnd \in Ending \cup {NoValue}
  /\ aSent # NoValue =>
       aSent \in [to : (SUBSET Address) \ {{}}, cc : SUBSET Address, bcc : SUBSET Address]

Given == aFlags.to \cup aFlags.cc \cup aFlags.bcc

Reached == aSent.to \cup aSent.cc \cup aSent.bcc

\* A reply reaches nobody twice, nobody who neither had the original nor was given,
\* nobody named in --remove unless given with --to or --bcc, and the user only when
\* given, or when the message is the user's own note to nobody else (a plain reply also follows a
\* Reply-To that names the user).
NobodyElseReached ==
  aSent # NoValue =>
    /\ aSent.to \cap aSent.cc = {} /\ (aSent.to \cup aSent.cc) \cap aSent.bcc = {}
    /\ Reached \subseteq
         Given \cup aOriginal.to \cup aOriginal.cc \cup aOriginal.replyTo \cup {aOriginal.from}
    /\ Reached \cap aFlags.remove \subseteq aFlags.to \cup aFlags.bcc
    /\ (Reached \cap Own) \ Given # {} =>
         \/ aOriginal.from \in Own /\ aOriginal.to \subseteq Own \cup aFlags.remove
         \/ ~aFlags.all /\ aOriginal.from \notin Own /\ aOriginal.replyTo \cap Own # {}

\* A reply to all that is sent reaches everybody who had the original, except the
\* user and those removed; and a reply to somebody else's message reaches the one who
\* is to be answered unless removed, or unless it is the user.
NobodyLeftOut ==
  aSent # NoValue =>
    /\ aFlags.all => (aOriginal.to \cup aOriginal.cc) \ (Own \cup aFlags.remove) \subseteq Reached
    /\ aOriginal.from \notin Own =>
         ReplyAddress(aOriginal) \ (IF aFlags.all THEN Own \cup aFlags.remove ELSE {}) \subseteq aSent.to
===============================================================================
