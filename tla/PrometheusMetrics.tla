------------------------- MODULE PrometheusMetrics -------------------------
(***************************************************************************)
(* metrics/prometheus.PrometheusMetrics: the same calls, counted in the    *)
(* series of Prometheus vectors.  The client library is external: a vector *)
(* is a map from label values to a series, and WithLabelValues(...).Inc()  *)
(* or Observe is one step.  A duration of a latency is not kept.           *)
(***************************************************************************)
EXTENDS Integers, FiniteSets

CONSTANTS
    LabelledTenants,
    MaxRecords     \* bound of the model: calls about each tenant and metric

ASSUME PrometheusAssumption == IsFiniteSet(LabelledTenants) /\ MaxRecords \in Nat

VARIABLES
    withTenantID,  \* m.withTenantID
    vector,        \* per metric: its series
    made           \* history: the calls made, per metric and tenant

prometheusVars == <<withTenantID, vector, made>>

Metrics == {"requests", "errors", "latency"}

\* The label values of a series: none, or those of tenant_id.
LabelValues == {<<>>} \cup {<<id>> : id \in LabelledTenants}

PrometheusTypeOK ==
    /\ withTenantID \in BOOLEAN
    /\ \A m \in Metrics : DOMAIN vector[m] \subseteq LabelValues /\ vector[m] \in [DOMAIN vector[m] -> Nat]
    /\ made \in [Metrics -> [LabelledTenants -> 0..MaxRecords]]

\* New, with or without WithTenantLabels.
PrometheusInit ==
    /\ withTenantID \in BOOLEAN
    /\ vector = [m \in Metrics |-> [l \in {} |-> 0]]
    /\ made = [m \in Metrics |-> [id \in LabelledTenants |-> 0]]

labelValues_Always(id) == <<id>>
\* labelValues.
labelValues(id) == IF withTenantID THEN <<id>> ELSE <<>>

\* IncRequests, IncErrors and ObserveLatency: the series of the labels is
\* created at 0 when it is not there yet.
Record(m, id) ==
    LET series == vector[m]
        l == labelValues(id)
    IN  /\ made[m][id] < MaxRecords
        /\ vector' = [vector EXCEPT ![m] =
              [k \in DOMAIN series \cup {l} |->
                 (IF k \in DOMAIN series THEN series[k] ELSE 0) + (IF k = l THEN 1 ELSE 0)]]
        /\ made' = [made EXCEPT ![m][id] = @ + 1]
        /\ UNCHANGED withTenantID

PrometheusNext == \E m \in Metrics, id \in LabelledTenants : Record(m, id)

PrometheusSpec == PrometheusInit /\ [][PrometheusNext]_prometheusVars

-----------------------------------------------------------------------------
\* The calls about a metric that were made, numbered for each tenant.
CallsMade(m) == {c \in LabelledTenants \X (1..MaxRecords) : c[2] <= made[m][c[1]]}

\* The series of a metric in its mode: one per tenant that was seen, or one.
SeriesPerTenant(m) == [l \in {<<id>> : id \in {i \in LabelledTenants : made[m][i] > 0}} |-> made[m][l[1]]]
OneSeries(n) == [l \in IF n = 0 THEN {} ELSE {<<>>} |-> n]
SeriesOf(m) == IF withTenantID THEN SeriesPerTenant(m) ELSE OneSeries(Cardinality(CallsMade(m)))

\* Both modes count every call exactly once.  By default there is one series
\* per metric, however many tenants there are; with WithTenantLabels, one per
\* tenant that was seen, with nothing but that tenant's calls.
SeriesMatchMode == \A m \in Metrics : vector[m] = SeriesOf(m)

=============================================================================
