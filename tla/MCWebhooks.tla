----------------------------- MODULE MCWebhooks -----------------------------
(* The kinds the webhooks are written for, and those they are registered for. *)
EXTENDS Webhooks

MCKind == {"osc", "kube-apiserver", "kcm", "mcm", "mcm-vpa", "metrics-server",
           "etcd-main", "etcd-events"}

\* add.go registers Deployments and OperatingSystemConfigs, not autoscalers.
MCRegistered == MCKind \ {"mcm-vpa"}

MCETCDStorage == [capacity |-> "25Gi", class |-> "nil"]
=============================================================================
