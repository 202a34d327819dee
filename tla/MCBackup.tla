------------------------------- MODULE MCBackup -------------------------------
(* An instance of Backup: one volume copied as it is, one whose service is *)
(* stopped; weeks of two days and months of two weeks.                     *)
EXTENDS Backup

MCVolumes == <<"caddy_data", "grafana_data">>
MCStopping == {"grafana_data"}

=============================================================================
