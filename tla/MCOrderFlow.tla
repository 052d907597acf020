---------------------------- MODULE MCOrderFlow -----------------------------
(* Instances of OrderFlow for TLC, and the codecs a report comes through. *)
EXTENDS OrderFlow, Codecs, TLC

CONSTANTS bolt, nut

Of(p, q) == [product |-> p, quantity |-> q]

\* One of each product; or one product on two lines, for more than there is.
SomeCarts == {<<Of(nut, 1), Of(bolt, 1)>>, <<Of(bolt, 1), Of(bolt, 2)>>}
OneOfEach == {<<Of(nut, 2), Of(bolt, 1)>>}

AnyWorker == Permutations(Workers)

\* Bytes whose digits lie at the ends of the alphabet, in payloads of up to
\* six: the fifth byte is the first to push another out of 32 bits.  A sender
\* that escapes what a URL requires, and one that escapes the '+' alone, in
\* small letters.
Payloads == BoundedSeq({0, 251, 255}, 6)
Senders == {[escaped |-> {Plus, 47, Equals}, ten |-> 65], [escaped |-> {Plus}, ten |-> 97]}

\* LiqPay's report reaches payment_callback as LiqPay signed it: base64, the
\* form's escapes and its fields are undone without a loss, whatever the
\* payload and its length.
ReportSurvivesItsForm == Init => SurvivesTheForm(Payloads, Senders)
=============================================================================
