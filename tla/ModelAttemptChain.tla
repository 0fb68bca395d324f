-------------------------- MODULE ModelAttemptChain --------------------------
(***************************************************************************)
(* What validation accepts as the chain of calls of one answer or judge    *)
(* completion (artifacts/validation/native.py).  A raw reference is the    *)
(* content it names: <<"messages", ms>>, <<"model", text>> for a response, *)
(* <<"supplier_error", status>>, <<"prompt", ...>>.  A text is a tuple.    *)
(* Messages are a sequence of <<role, text>>.                              *)
(***************************************************************************)
EXTENDS Integers, Sequences, FiniteSets

NoRef == <<"none">>
NoText == <<"no text">>
Correction == <<"correction">>

UserPrompt(prompt) == << <<"user", prompt>> >>

\* _model_output_text: a content that is null or not there is no text.
OutputText(ref) ==
    IF ref[1] = "model" /\ ref[2] # << >> THEN ref[2] ELSE NoText

Retryable(status) == status \in {408, 409, 429} \/ status \in 500..599

SameMessages(msgs, i) == i < Len(msgs) /\ msgs[i + 1] = msgs[i]

\* What the receipt of a call that did not end the completion well must say.
FailureReceiptCloses(att, receipt, same, terminal) ==
    IF att.outcome = "unknown"
    THEN /\ receipt.kind = "unknown" /\ receipt.failure \in {"timeout", "transport_error"}
         /\ same \/ terminal
    ELSE /\ receipt.kind = "error"
         /\ receipt.error = att.error /\ att.error # NoRef
         /\ \/ same /\ Retryable(receipt.status)
            \/ /\ ~same
               /\ \/ /\ terminal
                     /\ \/ Retryable(receipt.status)
                        \/ receipt.failure = "supplier_error" /\ receipt.status \in 400..499
                  \/ receipt.failure = "output_contract_error" /\ receipt.status \in {0, 200}

\* How many calls with these messages came before call i.
Position(msgs, i) ==
    i - (CHOOSE s \in 1..i : /\ \A j \in s..i : msgs[j] = msgs[i]
                             /\ s > 1 => msgs[s - 1] # msgs[i])

\* _model_attempt_receipt_layers_close: three calls with the same messages are
\* one outer attempt, and another starts with them only after a 429.
ReceiptLayersClose(atts, msgs, receipts, success) ==
    LET last == Len(atts)
        Receipt(i) == receipts[atts[i].id]
        Known(i) == atts[i].id \in DOMAIN receipts
    IN  /\ success => /\ Known(last) /\ Receipt(last).kind = "response"
                      /\ Receipt(last).response = atts[last].response
        /\ \A i \in 1..(IF success THEN last - 1 ELSE last) :
              Known(i) /\ FailureReceiptCloses(atts[i], Receipt(i), SameMessages(msgs, i), i = last)
        /\ \A i \in 1..last :
              Position(msgs, i) % 3 = 2 /\ SameMessages(msgs, i) => Known(i) /\ Receipt(i).status = 429
        /\ Cardinality({i \in 1..last : Position(msgs, i) % 3 = 0}) <= 6

\* The next call repeats the messages, or adds the answer and a correction.
MessagesFollow(previous, msgs, next) ==
    LET text == OutputText(IF previous.error # NoRef THEN previous.error ELSE previous.response)
    IN  next = IF text = NoText THEN msgs
               ELSE msgs \o << <<"assistant", text>>, <<"user", Correction>> >>

\* _model_attempt_chain_closes
ModelAttemptChainCloses(raws, receipts, atts, prompt, final, success) ==
    /\ atts # << >> /\ Len(atts) <= 18 /\ prompt # NoRef /\ prompt \in raws
    /\ LET last == atts[Len(atts)]
           Messages(i) == IF Len(atts) = 1 THEN UserPrompt(prompt) ELSE atts[i].messages[2]
           msgs == [i \in DOMAIN atts |-> Messages(i)]
       IN  /\ atts[1].retryOf = NoRef
           /\ success => /\ last.outcome = "succeeded" /\ last.response # NoRef
                         /\ final \in {NoRef, last.response}
           /\ \A i \in DOMAIN atts :
                 i < Len(atts) \/ ~success => atts[i].outcome \in {"failed", "unknown"}
           /\ atts[1].messages = <<"messages", UserPrompt(prompt)>>
           /\ Len(atts) > 1 => \A i \in DOMAIN atts : atts[i].messages \in raws
           /\ \A i \in 1..(Len(atts) - 1) :
                 /\ atts[i + 1].retryOf = atts[i].id
                 /\ MessagesFollow(atts[i], msgs[i], msgs[i + 1])
           /\ (\E i \in DOMAIN atts : atts[i].id \in DOMAIN receipts)
                 => ReceiptLayersClose(atts, msgs, receipts, success)
=============================================================================
