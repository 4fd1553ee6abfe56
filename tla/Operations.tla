----------------------------- MODULE Operations -----------------------------
(***************************************************************************)
(* The operations of the six client classes: the path each one requests    *)
(* and the class its reply is decoded to.  All are GET requests without    *)
(* parameters.  isNodeRunning alone does not decode: it returns whether    *)
(* the status is 2xx.                                                      *)
(***************************************************************************)
LOCAL INSTANCE TLC

Operation(path, returns) == [path |-> path, returns |-> returns]

BlockClient ==
  [getBlocks                   |-> Operation("/getblocks", "Blocks"),
   getQueryBlocks              |-> Operation("/queryblocks", "QueryBlocks"),
   getQueryBlocksLite          |-> Operation("/queryblockslite", "QueryBlocksLite"),
   getBlockDetailsByHeight     |-> Operation("/get_block_details_by_height", "BlockDetail"),
   getBlocksDetailsByHeights   |-> Operation("/get_blocks_details_by_heights", "BlocksDetails"),
   getBlocksDetailsByHashes    |-> Operation("/get_blocks_details_by_hashes", "BlocksDetailsHashes"),
   getBlocksHashesByTimestamps |-> Operation("/get_blocks_hashes_by_timestamps", "BlocksHashesTimestamp")]

NodeClient ==
  [isNodeRunning |-> Operation("/info", "Boolean"),
   getNodeInfo   |-> Operation("/info", "Info"),
   getNodeHeight |-> Operation("/height", "Height"),
   getNodePeers  |-> Operation("/peers", "Peers"),
   getNodeFee    |-> Operation("/fee", "Fee")]

TransactionClient ==
  [getTransactions                 |-> Operation("/gettransactions", "Transactions"),
   getTransactionDetailsByHashes   |-> Operation("/get_transaction_details_by_hashes", "TransactionDetailsHashes"),
   getTransactionHashesByPaymentId |-> Operation("/get_transaction_hashes_by_payment_id", "TransactionHashesPaymentId"),
   getTransactionsStatus           |-> Operation("/get_transactions_status", "TransactionsStatus")]

IndexesClient ==
  [getOIndexes              |-> Operation("/get_o_indexes", "OIndexes"),
   getGlobalIndexesForRange |-> Operation("/get_global_indexes_for_range", "GlobalIndexesForRange")]

OutputsClient == [getRandomOuts |-> Operation("/getrandom_outs", "RandomOutputs")]

PoolChangesClient == [getPoolChangesLite |-> Operation("/get_pool_changes_lite", "PoolChangesLite")]

Api == BlockClient @@ NodeClient @@ TransactionClient @@ IndexesClient
         @@ OutputsClient @@ PoolChangesClient

\* Operations that answer with the status of the reply instead of its body.
AsksStatus(o) == Api[o].returns = "Boolean"

=============================================================================
