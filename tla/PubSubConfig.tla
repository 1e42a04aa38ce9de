---------------------------- MODULE PubSubConfig ----------------------------
(***************************************************************************)
(* lib/pubsub-config.js: the issues a validator finds in a configuration,  *)
(* each a path with a code, and what the factories make of one without     *)
(* issues.  Every issue is collected; times are in one unit.               *)
(***************************************************************************)
EXTENDS PubSubValues

Numeric(v) == v[1] \in {"num", "half"}
Twice(v) == IF v[1] = "num" THEN 2 * v[2] ELSE 1
IsPositiveNumber(v) == Numeric(v) /\ Twice(v) > 0
IsInteger(v) == v[1] = "num"
IsUInt16(v) == IsInteger(v) /\ v[2] \in 0 .. U16
Wrong(o, Good(_)) == Has(o) /\ ~Good(Get(o))

(* Mutant: an identifier of any size.                                       *)
NotReserved(cfg) == Reason(cfg.writerGroupId = Num(0), <<"writerGroupId", "MUST_BE_NONZERO_UINT16">>)

IdIssues(cfg) ==
  Reason(~IsUInt16(cfg.writerGroupId), <<"writerGroupId", "MUST_BE_UINT16">>)
  \cup Reason(cfg.writerGroupId = Num(0), <<"writerGroupId", "MUST_BE_NONZERO_UINT16">>)

WriterGroupIssues(cfg) ==
  Reason(~IsPositiveNumber(cfg.publishingInterval), <<"publishingInterval", "MUST_BE_POSITIVE_NUMBER">>)
  \cup Reason(Wrong(cfg.keepAliveTime, IsPositiveNumber), <<"keepAliveTime", "MUST_BE_POSITIVE_NUMBER">>)
  \cup Reason(/\ Has(cfg.keepAliveTime) /\ IsPositiveNumber(Get(cfg.keepAliveTime))
              /\ IsPositiveNumber(cfg.publishingInterval)
              /\ Twice(Get(cfg.keepAliveTime)) < Twice(cfg.publishingInterval),
              <<"keepAliveTime", "MUST_BE_GTE_PUBLISHING_INTERVAL">>)
  \cup Reason(Wrong(cfg.maxNetworkMessageSize, IsPositiveNumber), <<"maxNetworkMessageSize", "MUST_BE_POSITIVE_NUMBER">>)
  \cup Reason(Wrong(cfg.priority, LAMBDA v : IsInteger(v) /\ v[2] \in 0 .. U8), <<"priority", "MUST_BE_BYTE_RANGE">>)
  \cup IdIssues(cfg)

WriterGroup(cfg) ==
  [publishingInterval |-> cfg.publishingInterval, keepAliveTime |-> Or(cfg.keepAliveTime, cfg.publishingInterval),
   maxNetworkMessageSize |-> Or(cfg.maxNetworkMessageSize, Num(1400)), priority |-> Or(cfg.priority, Num(128)),
   writerGroupId |-> cfg.writerGroupId[2]]

PublishedDataSetIssues(cfg) ==
  Reason(~cfg.named, <<"name", "MUST_BE_NON_EMPTY_STRING">>)
  \cup Reason(cfg.fields = <<>>, <<"fields", "MUST_BE_NON_EMPTY_ARRAY">>)
  \cup Reason(\E f \in ToSet(cfg.fields) : f.name[1] # "str", <<"fields.name", "MUST_BE_NON_EMPTY_STRING">>)
  \cup Reason(\E f \in ToSet(cfg.fields) : ~Has(f.type), <<"fields.dataType", "MUST_BE_STRING">>)
  \cup Reason(Wrong(cfg.version, LAMBDA cv : IsInteger(cv.major) /\ IsInteger(cv.minor)),
              <<"configurationVersion", "MUST_BE_VERSION_PAIR">>)

PublishedDataSet(cfg) ==
  [fields |-> cfg.fields, version |-> Or(cfg.version, [major |-> Num(1), minor |-> Num(0)])]

DataSetWriterIssues(cfg) ==
  Reason(~IsUInt16(cfg.dataSetWriterId) \/ cfg.dataSetWriterId = Num(0), <<"dataSetWriterId", "MUST_BE_NONZERO_UINT16">>)
  \cup Reason(Wrong(cfg.dataSetName, LAMBDA v : v[1] = "str"), <<"dataSetName", "MUST_BE_STRING">>)

DataSetWriter(cfg) ==
  [dataSetWriterId |-> cfg.dataSetWriterId[2], publishedDataSet |-> PublishedDataSet(cfg.publishedDataSet)]

DataSetReaderIssues(cfg) ==
  Reason(~(Has(cfg.publisherId) \/ Has(cfg.writerGroupId) \/ Has(cfg.dataSetWriterId)), <<"", "FILTER_REQUIRED">>)

=============================================================================
