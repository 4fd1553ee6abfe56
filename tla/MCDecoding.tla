----------------------------- MODULE MCDecoding -----------------------------
(* Finite instances of Decoding: every operation that decodes its reply, and  *)
(* every class of Model.                                                      *)
EXTENDS Decoding, Operations, Model, Config

MCReplyTypes ==
  [o \in {o \in DOMAIN Api : ~AsksStatus(o)} |-> ReplyClass[Api[o].returns]]

Plain == {Int32, Int64, Bool, Text}

Classes ==
  {GlobalIndexesForRange, OIndexes, RandomOutputs, TransactionPrefixVoutTargetData,
   TransactionPrefixVoutTarget, TransactionPrefixVout, TransactionPrefixVinValue,
   TransactionPrefixVin, TransactionPrefix, Transaction, Transactions,
   TransactionDetailsHashes, TransactionHashesPaymentId, TransactionsStatus,
   PoolChangesLite, BlockDetailBlockTransactionExtra,
   BlockDetailBlockTransactionInputDataInput, BlockDetailBlockTransactionInputData,
   BlockDetailBlockTransactionInput,
   BlockDetailBlockTransactionOutputOutputTargetData,
   BlockDetailBlockTransactionOutputOutputTarget,
   BlockDetailBlockTransactionOutputOutput, BlockDetailBlockTransactionOutput,
   BlockDetailBlockTransaction, BlockDetailBlock, BlockDetail, BlocksDetails,
   BlocksDetailsHashes, BlocksHashesTimestamp, Blocks, QueryBlocksItems, QueryBlocks,
   QueryBlocksLiteItems, QueryBlocksLite, Fee, Height, Peers, Info}

MCTypes == Plain \cup Classes \cup {ListOf(type) : type \in Plain \cup Classes}

Narrow(k) ==
  \E type \in Types :
    \/ k \in Keys(type) /\ type.members[k] = Int32
    \/ k = "" /\ type = ListOf(Int32)

\* A daemon whose numbers are as wide as the narrowest property they are read
\* into, and one with outputs of Config.MAX_OUTPUT_SIZE_CLIENT.
MCDaemonBits == [k \in Names |-> IF Narrow(k) THEN 31 ELSE 63]
MCMaxOutputBits == [MCDaemonBits EXCEPT !["amount"] = BitsOfMaxOutputSizeClient]

=============================================================================
