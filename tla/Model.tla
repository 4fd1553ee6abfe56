------------------------------- MODULE Model --------------------------------
(***************************************************************************)
(* The reply classes of kryptokrona-http, one definition per data class:   *)
(* the keys its JSON object must have and the type of each.  A key is the  *)
(* @SerialName where there is one, else the name of the property; a name   *)
(* with a dot in it is one key.  No property has a default and no type is  *)
(* nullable, so every key is required.                                     *)
(*                                                                         *)
(* A number type is its width: an Int holds numbers of up to 31 bits, a    *)
(* Long of up to 63 (the daemon's numbers are not negative).               *)
(***************************************************************************)
LOCAL INSTANCE TLC

Int32 == [is |-> "number", bits |-> 31]
Int64 == [is |-> "number", bits |-> 63]
Bool  == [is |-> "boolean"]
Text  == [is |-> "string"]

ListOf(type) == [is |-> "array", of |-> type]
Object(members) == [is |-> "object", members |-> members]

\* Several keys of the same type.
All(keys, type) == [k \in keys |-> type]

-----------------------------------------------------------------------------
(* Package model.                                                          *)

GlobalIndexesForRange == Object([indexes |-> ListOf(Int64), status |-> Text])

OIndexes == Object([o_indexes |-> ListOf(Int64), status |-> Text])

RandomOutputs == Object([outs |-> ListOf(Int32), status |-> Text])

-----------------------------------------------------------------------------
(* Package model.transaction.                                              *)

TransactionPrefixVoutTargetData == Object([key |-> Text])

TransactionPrefixVoutTarget ==
  Object([data |-> TransactionPrefixVoutTargetData, type |-> Text])

TransactionPrefixVout == Object([amount |-> Int32, target |-> TransactionPrefixVoutTarget])

TransactionPrefixVinValue ==
  Object([amount |-> Int32, k_image |-> Text, key_offsets |-> ListOf(Int32)])

TransactionPrefixVin == Object([type |-> Text, value |-> TransactionPrefixVinValue])

TransactionPrefix ==
  Object([extra |-> Text, unlock_time |-> Int32, version |-> Int32,
          vin |-> ListOf(TransactionPrefixVin), vout |-> ListOf(TransactionPrefixVout)])

Transaction ==
  Object("transactionPrefixInfo.txHash" :> Text
           @@ "transactionPrefixInfo.txPrefix" :> TransactionPrefix)

Transactions ==
  Object([status |-> Text] @@ All({"missed_tx", "txs_as_hex"}, ListOf(Text)))

TransactionDetailsHashes == Object([status |-> Text, transactions |-> ListOf(Text)])

TransactionHashesPaymentId == Object([status |-> Text, transactionHashes |-> ListOf(Text)])

TransactionsStatus ==
  Object([status |-> Text]
           @@ All({"transactionsInBlock", "transactionsInPool", "transactionsUnknown"},
                  ListOf(Text)))

PoolChangesLite ==
  Object([addedTxs |-> ListOf(Transaction), deletedTxsIds |-> ListOf(Text),
          isTailBlockActual |-> Bool, status |-> Text])

-----------------------------------------------------------------------------
(* Package model.block.                                                    *)

BlockDetailBlockTransactionExtra ==
  Object([nonce |-> ListOf(Text)] @@ All({"publicKey", "raw"}, Text))

BlockDetailBlockTransactionInputDataInput == Object([height |-> Int32])

BlockDetailBlockTransactionInputData ==
  Object([amount |-> Int32, input |-> BlockDetailBlockTransactionInputDataInput])

BlockDetailBlockTransactionInput ==
  Object([data |-> BlockDetailBlockTransactionInputData, type |-> Text])

BlockDetailBlockTransactionOutputOutputTargetData == Object([key |-> Text])

BlockDetailBlockTransactionOutputOutputTarget ==
  Object([data |-> BlockDetailBlockTransactionOutputOutputTargetData, type |-> Text])

BlockDetailBlockTransactionOutputOutput ==
  Object([amount |-> Int32, target |-> BlockDetailBlockTransactionOutputOutputTarget])

BlockDetailBlockTransactionOutput ==
  Object([globalIndex |-> Int32, output |-> BlockDetailBlockTransactionOutputOutput])

BlockDetailBlockTransaction ==
  Object(All({"blockIndex", "fee", "mixin", "signaturesSize", "size", "timestamp",
              "totalInputsAmount", "totalOutputsAmount", "unlockTime"}, Int32)
           @@ All({"blockHash", "hash", "paymentId"}, Text)
           @@ [extra        |-> BlockDetailBlockTransactionExtra,
               inBlockchain |-> Bool,
               inputs       |-> ListOf(BlockDetailBlockTransactionInput),
               outputs      |-> ListOf(BlockDetailBlockTransactionOutput),
               signatures   |-> ListOf(Text)])

BlockDetailBlock ==
  Object(All({"alreadyGeneratedCoins", "alreadyGeneratedTransactions", "baseReward",
              "blockSize", "difficulty", "index", "majorVersion", "minorVersion", "nonce",
              "reward", "sizeMedian", "timestamp", "totalFeeAmount",
              "transactionsCumulativeSize"}, Int32)
           @@ All({"hash", "prevBlockHash"}, Text)
           @@ [transactions |-> ListOf(BlockDetailBlockTransaction)])

BlockDetail == Object([block |-> BlockDetailBlock, status |-> Text])

BlocksDetails == Object([blocks |-> ListOf(Text), status |-> Text])

BlocksDetailsHashes == Object([blocks |-> ListOf(Text), status |-> Text])

BlocksHashesTimestamp == Object([blockHashes |-> ListOf(Text), status |-> Text])

Blocks ==
  Object("response.blocks" :> ListOf(Text)
           @@ All({"response.current_height", "response.start_height"}, Int32)
           @@ "response.status" :> Text)

-----------------------------------------------------------------------------
(* Package model.queryblocks.                                              *)

QueryBlocksItems ==
  Object("blockFullInfo.block" :> ListOf(Int32)
           @@ "blockFullInfo.block_id" :> Text
           @@ "txs" :> ListOf(Text))

QueryBlocks ==
  Object(All({"current_height", "full_offset", "start_height"}, Int32)
           @@ [items |-> ListOf(QueryBlocksItems), status |-> Text])

QueryBlocksLiteItems ==
  Object("blockShortInfo.block" :> ListOf(Int32)
           @@ "blockShortInfo.blockId" :> Text
           @@ "blockShortInfo.txPrefixes" :> ListOf(TransactionPrefix))

QueryBlocksLite ==
  Object(All({"currentHeight", "fullOffset", "startHeight"}, Int32)
           @@ [items |-> ListOf(QueryBlocksLiteItems), status |-> Text])

-----------------------------------------------------------------------------
(* Package model.node.                                                     *)

Fee == Object([address |-> Text, amount |-> Int64, status |-> Text])

Height == Object(All({"height", "network_height"}, Int32) @@ [status |-> Text])

Peers == Object(All({"gray_peers", "peers"}, ListOf(Text)) @@ [status |-> Text])

Info ==
  Object(All({"alt_blocks_count", "difficulty", "grey_peerlist_size", "hashrate", "height",
              "incoming_connections_count", "last_known_block_index", "major_version",
              "minor_version", "network_height", "outgoing_connections_count", "start_time",
              "supported_height", "tx_count", "tx_pool_size", "white_peerlist_size"}, Int32)
           @@ All({"synced", "testnet"}, Bool)
           @@ All({"status", "version"}, Text)
           @@ [upgrade_heights |-> ListOf(Int32)])

-----------------------------------------------------------------------------
\* The classes client methods return, by their names in Operations.
ReplyClass ==
  [GlobalIndexesForRange      |-> GlobalIndexesForRange,
   OIndexes                   |-> OIndexes,
   RandomOutputs              |-> RandomOutputs,
   PoolChangesLite            |-> PoolChangesLite,
   Transactions               |-> Transactions,
   TransactionDetailsHashes   |-> TransactionDetailsHashes,
   TransactionHashesPaymentId |-> TransactionHashesPaymentId,
   TransactionsStatus         |-> TransactionsStatus,
   BlockDetail                |-> BlockDetail,
   BlocksDetails              |-> BlocksDetails,
   BlocksDetailsHashes        |-> BlocksDetailsHashes,
   BlocksHashesTimestamp      |-> BlocksHashesTimestamp,
   Blocks                     |-> Blocks,
   QueryBlocks                |-> QueryBlocks,
   QueryBlocksLite            |-> QueryBlocksLite,
   Fee                        |-> Fee,
   Height                     |-> Height,
   Peers                      |-> Peers,
   Info                       |-> Info]

=============================================================================
